---- MODULE Spec2Model ----
(***************************************************************************)
(* Lane-wise traffic congestion engine (cv-module): the sliding-window     *)
(* CongestionDetector, the density and speed estimators, the polygon       *)
(* membership test and the frame loop of runner_tc.py.                     *)
(*                                                                         *)
(* Numbers.  The Python code works on floats.  Every float the model needs *)
(* is a quotient of two integers, so it is kept as the pair of integers    *)
(* and a comparison  a/b >= p/q  is written  a*q >= p*b  (b, q > 0).  For  *)
(* the operands that occur here (sums of codes 0..2 over at most 16        *)
(* entries, weights that are multiples of 0.5, displacements that are      *)
(* whole pixels) the IEEE division is the correctly rounded quotient and   *)
(* the thresholds are the doubles nearest to the decimal literals, so the  *)
(* float comparison and the exact one agree.                               *)
(***************************************************************************)
EXTENDS Integers, Sequences, FiniteSets, TLC

VARIABLES
    det,          \* a CongestionDetector driven call by call (unit harness)
    log,          \* history: the valid (density, speed) pairs given to det, in order
    last_call,    \* history: the last call made on the harness, with its arguments
    ret,          \* history: what that call returned
    pc,               \* runner_tc.py: "off" (not started), "loop", "done"
    fps,              \* cap.get(CAP_PROP_FPS)
    road_capacity,    \* the capacity handed to compute_density_polygon
    lane1_poly,       \* lane_data["lane_1"]
    lane2_poly,       \* lane_data["lane_2"]
    frame_count,
    results_boxes,    \* results.boxes of the last processed frame
    track_history,    \* defaultdict(list): track id -> sequence of centroids
    lane_detectors,   \* 0, 1 -> CongestionDetector
    tracked_objects,  \* the last processed frame's objects
    lane1_objects,
    lane2_objects,
    d1, s1, state1,   \* the last processed frame's results for lane 1
    d2, s2, state2,   \* and for lane 2
    lane_pc,          \* 0, 1 -> statements of the lane's analysis done in this frame (0..4)
    frame_start,      \* history: lane_detectors when the frame's analysis began
    parking_slots,    \* ParkingManager.parking_slots: sequence of slots
    slot_status,      \* ParkingManager.slot_status: slot id -> status record
    clock,            \* what datetime.now() last returned
    current_lane,     \* callibirate_lanes.py: "upper" or "lower"
    points,           \* callibirate_lanes.py: lane -> the points clicked for it
    cal_pc,           \* callibirate_lanes.py: "loop", "saved" or "quit"
    out_file          \* the file args.out

unit_vars == <<det, log, last_call, ret>>

runner_vars == <<pc, fps, road_capacity, lane1_poly, lane2_poly, frame_count,
                 results_boxes, track_history, lane_detectors, tracked_objects,
                 lane1_objects, lane2_objects, d1, s1, state1, d2, s2, state2,
                 lane_pc, frame_start>>

parking_vars == <<parking_slots, slot_status, clock>>

\* the variables of the modules beside the congestion engine
cal_vars == <<current_lane, points, cal_pc, out_file>>

side_vars == <<parking_vars, cal_vars>>

vars == <<det, log, last_call, ret,
          pc, fps, road_capacity, lane1_poly, lane2_poly, frame_count,
          results_boxes, track_history, lane_detectors, tracked_objects,
          lane1_objects, lane2_objects, d1, s1, state1, d2, s2, state2,
          lane_pc, frame_start,
          parking_slots, slot_status, clock,
          current_lane, points, cal_pc, out_file>>

----------------------------------------------------------------------------
(* Bounds of the model *)

MaxWindow == 3        \* Spec: window_size is drawn from 1..MaxWindow
MaxUpdates == 3       \* Spec: at most this many valid updates per run
MaxWinUpdates == 30   \* SpecWin: at most this many updates per run
MaxCars == 14         \* SpecEst: at most this many cars in the lane
MaxHistory == 3       \* SpecEst: positions per track handed to the speed estimator
MaxStride == 4        \* SpecEst: frame strides 1..MaxStride besides FRAME_SKIP
MaxFrames == 30       \* SpecRunner: frames read from the video
MaxScenarioFrames == 375   \* SpecScenario: frames read from the video (25 processed)
MaxChecks == 3        \* SpecParking: check_slot_occupancy calls per run
MaxRecords == 11      \* SpecTrend: records in the density collection

----------------------------------------------------------------------------
(* congestion_state.py *)

DENSITY_SCORE == [LOW |-> 0, MEDIUM |-> 1, HIGH |-> 2]

SPEED_SCORE == [HIGH |-> 0, MEDIUM |-> 1, LOW |-> 2]

DensityLevels == {"LOW", "MEDIUM", "HIGH"}

SpeedLevels == {"HIGH", "MEDIUM", "LOW"}

\* What a caller can pass as a level: the three names, and values that are
\* no key of the score tables (wrong case, None).
AnyLevels == {"LOW", "MEDIUM", "HIGH", "low", "None"}

DefaultWindowSize == 15

\* deque(maxlen = n).append(x): drops the leftmost element when full.
DequeAppend_evict_newest(q, x, maxlen) ==
    IF Len(q) >= maxlen
    THEN (IF maxlen = 0 THEN q ELSE SubSeq(q, 1, Len(q) - 1) \o <<x>>)
    ELSE Append(q, x)

DequeAppend(q, x, maxlen) ==
    IF Len(q) >= maxlen
    THEN (IF maxlen = 0 THEN q ELSE Tail(q) \o <<x>>)
    ELSE Append(q, x)

\* CongestionDetector.__init__
CongestionDetector(window_size) ==
    [window_size |-> window_size, density_hist |-> <<>>, speed_hist |-> <<>>]

\* CongestionDetector.update: the detector after the call.
update_half_on_bad_speed(self, density_level, speed_level) ==
    IF density_level \notin DOMAIN DENSITY_SCORE
    THEN self
    ELSE IF speed_level \notin DOMAIN SPEED_SCORE
         THEN [self EXCEPT !.density_hist =
                  DequeAppend(@, DENSITY_SCORE[density_level], self.window_size)]
         ELSE [self EXCEPT
                  !.density_hist = DequeAppend(@, DENSITY_SCORE[density_level], self.window_size),
                  !.speed_hist = DequeAppend(@, SPEED_SCORE[speed_level], self.window_size)]

update(self, density_level, speed_level) ==
    IF density_level \notin DOMAIN DENSITY_SCORE
    THEN self
    ELSE IF speed_level \notin DOMAIN SPEED_SCORE
         THEN self
         ELSE [self EXCEPT
                  !.density_hist = DequeAppend(@, DENSITY_SCORE[density_level], self.window_size),
                  !.speed_hist = DequeAppend(@, SPEED_SCORE[speed_level], self.window_size)]

\* sum(deque)
RECURSIVE Sum(_)
Sum(q) == IF q = <<>> THEN 0 ELSE Head(q) + Sum(Tail(q))

\* CongestionDetector.get_state.  avg_density = sd / nd, avg_speed = ss / ns.
get_state_moderate_first(self) ==
    IF self.density_hist = <<>> \/ self.speed_hist = <<>>
    THEN "UNKNOWN"
    ELSE LET sd == Sum(self.density_hist)
             nd == Len(self.density_hist)
             ss == Sum(self.speed_hist)
             ns == Len(self.speed_hist)
         IN  IF 10 * sd >= 16 * nd /\ 10 * ss >= 16 * ns THEN "SEVERE_CONGESTION"
             ELSE IF 10 * sd >= 15 * nd /\ 10 * ss < 16 * ns THEN "MODERATE_CONGESTION"
             ELSE IF 10 * sd >= 10 * nd /\ 10 * ss >= 12 * ns THEN "HIGH_CONGESTION"
             ELSE IF 10 * sd < 5 * nd THEN "FREE_FLOW"
             ELSE "NORMAL"

get_state_strict(self) ==
    IF self.density_hist = <<>> \/ self.speed_hist = <<>>
    THEN "UNKNOWN"
    ELSE LET sd == Sum(self.density_hist)
             nd == Len(self.density_hist)
             ss == Sum(self.speed_hist)
             ns == Len(self.speed_hist)
         IN  IF 10 * sd > 16 * nd /\ 10 * ss > 16 * ns THEN "SEVERE_CONGESTION"
             ELSE IF 10 * sd > 10 * nd /\ 10 * ss > 12 * ns THEN "HIGH_CONGESTION"
             ELSE IF 10 * sd >= 15 * nd /\ 10 * ss < 12 * ns THEN "MODERATE_CONGESTION"
             ELSE IF 10 * sd < 5 * nd THEN "FREE_FLOW"
             ELSE "NORMAL"

get_state_unknown_until_full(self) ==
    IF Len(self.density_hist) < self.window_size
    THEN "UNKNOWN"
    ELSE LET sd == Sum(self.density_hist)
             nd == Len(self.density_hist)
             ss == Sum(self.speed_hist)
             ns == Len(self.speed_hist)
         IN  IF 10 * sd >= 16 * nd /\ 10 * ss >= 16 * ns THEN "SEVERE_CONGESTION"
             ELSE IF 10 * sd >= 10 * nd /\ 10 * ss >= 12 * ns THEN "HIGH_CONGESTION"
             ELSE IF 10 * sd >= 15 * nd /\ 10 * ss < 12 * ns THEN "MODERATE_CONGESTION"
             ELSE IF 10 * sd < 5 * nd THEN "FREE_FLOW"
             ELSE "NORMAL"

get_state(self) ==
    IF self.density_hist = <<>> \/ self.speed_hist = <<>>
    THEN "UNKNOWN"
    ELSE LET sd == Sum(self.density_hist)
             nd == Len(self.density_hist)
             ss == Sum(self.speed_hist)
             ns == Len(self.speed_hist)
         IN  IF 10 * sd >= 16 * nd /\ 10 * ss >= 16 * ns THEN "SEVERE_CONGESTION"
             ELSE IF 10 * sd >= 10 * nd /\ 10 * ss >= 12 * ns THEN "HIGH_CONGESTION"
             ELSE IF 10 * sd >= 15 * nd /\ 10 * ss < 12 * ns THEN "MODERATE_CONGESTION"
             ELSE IF 10 * sd < 5 * nd THEN "FREE_FLOW"
             ELSE "NORMAL"

----------------------------------------------------------------------------
(* lane_geometry.py, roi.py *)

\* cv2.pointPolygonTest(contour, pt, False) for an integer contour and an
\* integer point: 1 inside, 0 on an edge or a vertex, -1 outside.  The loop
\* runs over the edges (v0, v), v0 the vertex before v.
RECURSIVE PointPolygonLoop(_, _, _, _)
PointPolygonLoop(cnt, ip, i, counter) ==
    IF i > Len(cnt)
    THEN (IF counter % 2 = 0 THEN -1 ELSE 1)
    ELSE LET v0 == cnt[IF i = 1 THEN Len(cnt) ELSE i - 1]
             v == cnt[i]
         IN  IF \/ (v0[2] <= ip[2] /\ v[2] <= ip[2])
                \/ (v0[2] > ip[2] /\ v[2] > ip[2])
                \/ (v0[1] < ip[1] /\ v[1] < ip[1])
             THEN IF /\ ip[2] = v[2]
                     /\ \/ ip[1] = v[1]
                        \/ /\ ip[2] = v0[2]
                           /\ \/ (v0[1] <= ip[1] /\ ip[1] <= v[1])
                              \/ (v[1] <= ip[1] /\ ip[1] <= v0[1])
                  THEN 0
                  ELSE PointPolygonLoop(cnt, ip, i + 1, counter)
             ELSE LET dist == (ip[2] - v0[2]) * (v[1] - v0[1])
                              - (ip[1] - v0[1]) * (v[2] - v0[2])
                      sdist == IF v[2] < v0[2] THEN 0 - dist ELSE dist
                  IN  IF dist = 0
                      THEN 0
                      ELSE PointPolygonLoop(cnt, ip, i + 1,
                                            counter + (IF sdist > 0 THEN 1 ELSE 0))

pointPolygonTest(contour, pt) == PointPolygonLoop(contour, pt, 1, 0)

point_in_polygon_strict(point, polygon) == pointPolygonTest(polygon, point) > 0

point_in_polygon(point, polygon) == pointPolygonTest(polygon, point) >= 0

\* is_inside_roi: the centre ((bx1+bx2)/2, (by1+by2)/2) is a float; the
\* comparisons are made on twice the values.
is_inside_roi(bbox, roi) ==
    /\ 2 * roi[1] <= bbox[1] + bbox[3] /\ bbox[1] + bbox[3] <= 2 * roi[3]
    /\ 2 * roi[2] <= bbox[2] + bbox[4] /\ bbox[2] + bbox[4] <= 2 * roi[4]

\* (x1 + x2) // 2, (y1 + y2) // 2
Centroid(bbox) == <<(bbox[1] + bbox[3]) \div 2, (bbox[2] + bbox[4]) \div 2>>

----------------------------------------------------------------------------
(* density.py *)

\* config.VEHICLE_WEIGHTS, in units of 1 / WeightDen: car 1.0, truck 2.0,
\* bus 3.0, motorbike 0.5, bicycle 0.5.
WeightDen == 2

VEHICLE_WEIGHTS == [car |-> 2, truck |-> 4, bus |-> 6, motorbike |-> 1, bicycle |-> 1]

\* str.lower() on the class names that occur
Lower(c) == CASE c = "Car" -> "car" [] c = "Truck" -> "truck" [] OTHER -> c

\* the three-way classification of density_ratio = r[1] / r[2]
density_level_closed_low(r) ==
    IF 10 * r[1] <= 4 * r[2] THEN "LOW"
    ELSE IF 10 * r[1] <= 7 * r[2] THEN "MEDIUM"
    ELSE "HIGH"

density_level_of(r) ==
    IF 10 * r[1] < 4 * r[2] THEN "LOW"
    ELSE IF 10 * r[1] < 7 * r[2] THEN "MEDIUM"
    ELSE "HIGH"

\* occupancy accumulated by the loop of compute_density, times WeightDen
RECURSIVE RoiOccupancy(_, _)
RoiOccupancy(objs, roi) ==
    IF objs = <<>> THEN 0
    ELSE LET obj == Head(objs)
             cls == Lower(obj.cls)
             w == IF is_inside_roi(obj.bbox, roi) /\ cls \in DOMAIN VEHICLE_WEIGHTS
                  THEN VEHICLE_WEIGHTS[cls] ELSE 0
         IN  w + RoiOccupancy(Tail(objs), roi)

compute_density(objs, roi, capacity) ==
    LET occupancy == RoiOccupancy(objs, roi)
        density_ratio == IF capacity > 0 THEN <<occupancy, WeightDen * capacity>>
                         ELSE <<0, 1>>
    IN  [occupancy |-> <<occupancy, WeightDen>>,
         density_ratio |-> density_ratio,
         density_level |-> density_level_of(density_ratio)]

\* occupancy accumulated by the loop of compute_density_polygon, times WeightDen
RECURSIVE PolygonOccupancy(_, _)
PolygonOccupancy(objs, poly) ==
    IF objs = <<>> THEN 0
    ELSE LET obj == Head(objs)
             cls == Lower(obj.cls)
             inside == pointPolygonTest(poly, Centroid(obj.bbox))
             w == IF inside >= 0 /\ cls \in DOMAIN VEHICLE_WEIGHTS
                  THEN VEHICLE_WEIGHTS[cls] ELSE 0
         IN  w + PolygonOccupancy(Tail(objs), poly)

compute_density_polygon_nonzero_capacity(objs, lane_polygon, capacity) ==
    LET occupancy == PolygonOccupancy(objs, lane_polygon)
        density_ratio == IF capacity > 0 THEN <<occupancy, WeightDen * capacity>>
                         ELSE IF capacity < 0 THEN <<0 - occupancy, WeightDen * (0 - capacity)>>
                         ELSE <<0, 1>>
    IN  [occupancy |-> <<occupancy, WeightDen>>,
         density_ratio |-> density_ratio,
         density_level |-> density_level_of(density_ratio)]

compute_density_polygon(objs, lane_polygon, capacity) ==
    LET occupancy == PolygonOccupancy(objs, lane_polygon)
        density_ratio == IF capacity > 0 THEN <<occupancy, WeightDen * capacity>>
                         ELSE <<0, 1>>
    IN  [occupancy |-> <<occupancy, WeightDen>>,
         density_ratio |-> density_ratio,
         density_level |-> density_level_of(density_ratio)]

----------------------------------------------------------------------------
(* speed.py *)

\* ((x2-x1)**2 + (y2-y1)**2) ** 0.5 for positions a whole number of pixels
\* apart (the only ones the model uses), where the float result is exact.
pixel_dist(p1, p2) ==
    LET dx == IF p2[1] >= p1[1] THEN p2[1] - p1[1] ELSE p1[1] - p2[1]
        dy == IF p2[2] >= p1[2] THEN p2[2] - p1[2] ELSE p1[2] - p2[2]
    IN  CHOOSE r \in 0..(dx + dy) : r * r = dx * dx + dy * dy

\* sum of the last displacements of the tracks in ids
RECURSIVE SumDist(_, _)
SumDist(th, ids) ==
    IF ids = {} THEN 0
    ELSE LET t == CHOOSE x \in ids : TRUE
             positions == th[t]
         IN  pixel_dist(positions[Len(positions) - 1], positions[Len(positions)])
             + SumDist(th, ids \ {t})

\* the three-way classification of avg_speed = a[1] / a[2]
speed_level_closed_low(a) ==
    IF a[1] <= 10 * a[2] THEN "LOW"
    ELSE IF a[1] <= 20 * a[2] THEN "MEDIUM"
    ELSE "HIGH"

speed_level_of(a) ==
    IF a[1] < 10 * a[2] THEN "LOW"
    ELSE IF a[1] < 20 * a[2] THEN "MEDIUM"
    ELSE "HIGH"

compute_average_speed_all_tracks(th, rate) ==
    LET moving == {t \in DOMAIN th : Len(th[t]) >= 2}
        count == Cardinality(DOMAIN th)
        avg_speed == IF count > 0
                     THEN <<SumDist(th, moving) * rate[1], rate[2] * count>>
                     ELSE <<0, 1>>
    IN  [avg_speed |-> avg_speed, speed_level |-> speed_level_of(avg_speed)]

\* compute_average_speed(track_history, fps), fps = rate[1] / rate[2]
compute_average_speed(th, rate) ==
    LET moving == {t \in DOMAIN th : Len(th[t]) >= 2}
        count == Cardinality(moving)
        avg_speed == IF count > 0
                     THEN <<SumDist(th, moving) * rate[1], rate[2] * count>>
                     ELSE <<0, 1>>
    IN  [avg_speed |-> avg_speed, speed_level |-> speed_level_of(avg_speed)]

----------------------------------------------------------------------------
(* runner_tc.py: constants and state before the loop *)

FRAME_SKIP == 15

ROAD_CAPACITY == 20

\* the classes the runner keeps
VehicleClasses == {"car", "truck", "bus", "motorbike", "bicycle"}

\* box.id is None
NoId == 0 - 1

NoDensity == [occupancy |-> <<0, 1>>, density_ratio |-> <<0, 1>>, density_level |-> "None"]

NoSpeed == [avg_speed |-> <<0, 1>>, speed_level |-> "None"]

EmptyHistory == [t \in {} |-> <<>>]

\* ParkingManager.__init__: no slot, no status; the clock at its start
ParkingOff ==
    /\ parking_slots = <<>>
    /\ slot_status = [i \in {} |-> 0]
    /\ clock = 0

\* args.out while nothing has been written to it
NoFile == [written |-> FALSE]

\* the calibration tool when its main loop is entered
CalOff ==
    /\ current_lane = "upper"
    /\ points = [upper |-> <<>>, lower |-> <<>>]
    /\ cal_pc = "loop"
    /\ out_file = NoFile

SideOff == ParkingOff /\ CalOff

\* the runner's variables while the script is not running
RunnerOff ==
    /\ SideOff
    /\ pc = "off"
    /\ fps = 0
    /\ road_capacity = ROAD_CAPACITY
    /\ lane1_poly = <<>>
    /\ lane2_poly = <<>>
    /\ frame_count = 0
    /\ results_boxes = <<>>
    /\ track_history = EmptyHistory
    /\ lane_detectors = [i \in {0, 1} |-> CongestionDetector(15)]
    /\ tracked_objects = <<>>
    /\ lane1_objects = <<>>
    /\ lane2_objects = <<>>
    /\ d1 = NoDensity /\ s1 = NoSpeed /\ state1 = "None"
    /\ d2 = NoDensity /\ s2 = NoSpeed /\ state2 = "None"
    /\ lane_pc = [i \in {0, 1} |-> 4]
    /\ frame_start = [i \in {0, 1} |-> CongestionDetector(15)]

\* runner_tc.py: helpers
compute_lane_speed_nominal_fps(lane_objects, th, nominal_fps) ==
    LET ids == {lane_objects[i].id : i \in 1..Len(lane_objects)} \cap DOMAIN th
        lane_tracks == [tid \in ids |-> th[tid]]
    IN  compute_average_speed(lane_tracks, <<nominal_fps, 1>>)

compute_lane_speed_all_tracks(lane_objects, th, nominal_fps) ==
    compute_average_speed(th, <<nominal_fps, FRAME_SKIP>>)

\* compute_lane_speed
compute_lane_speed(lane_objects, th, nominal_fps) ==
    LET ids == {lane_objects[i].id : i \in 1..Len(lane_objects)} \cap DOMAIN th
        lane_tracks == [tid \in ids |-> th[tid]]
    IN  compute_average_speed(lane_tracks, <<nominal_fps, FRAME_SKIP>>)

\* compute_vehicle_speed(track, fps): the speed as a quotient
compute_vehicle_speed(track, nominal_fps) ==
    IF Len(track) < 2 THEN <<0, 1>>
    ELSE <<pixel_dist(track[Len(track) - 1], track[Len(track)]) * nominal_fps, FRAME_SKIP>>

----------------------------------------------------------------------------
(* Unit harness: one detector, called from outside *)

NoCall == [op |-> "none"]

InitDet ==
    /\ \E n \in 1..MaxWindow : det = CongestionDetector(n)
    /\ log = <<>>
    /\ last_call = NoCall
    /\ ret = "None"
    /\ RunnerOff

\* det.update(d, s) with any pair of values
Update(d, s) ==
    /\ (d \in DensityLevels /\ s \in SpeedLevels) => Len(log) < MaxUpdates
    /\ det' = update(det, d, s)
    /\ log' = IF d \in DensityLevels /\ s \in SpeedLevels
              THEN Append(log, <<d, s>>) ELSE log
    /\ last_call' = [op |-> "update", density_level |-> d, speed_level |-> s]
    /\ ret' = "None"
    /\ UNCHANGED <<runner_vars, side_vars>>

GetState_clears_window ==
    /\ ret' = get_state(det)
    /\ last_call' = [op |-> "get_state"]
    /\ det' = [det EXCEPT !.density_hist = <<>>, !.speed_hist = <<>>]
    /\ UNCHANGED log
    /\ UNCHANGED <<runner_vars, side_vars>>

\* det.get_state()
GetState ==
    /\ ret' = get_state(det)
    /\ last_call' = [op |-> "get_state"]
    /\ UNCHANGED <<det, log>>
    /\ UNCHANGED <<runner_vars, side_vars>>

NextDet ==
    \/ \E d \in AnyLevels, s \in AnyLevels : Update(d, s)
    \/ GetState

Spec == InitDet /\ [][NextDet]_vars

----------------------------------------------------------------------------
(* The same harness with the runner's window (15) and a run of updates in  *)
(* two phases, as the simulated run of tests/test_congestion_simple.py     *)
(* feeds them: a first pair of levels some number of times, then a second. *)

TwoPhase(l) ==
    \E cut \in 0..Len(l) :
        /\ \A i \in 1..cut : l[i] = l[1]
        /\ \A i \in (cut + 1)..Len(l) : l[i] = l[Len(l)]

InitWin ==
    /\ det = CongestionDetector(DefaultWindowSize)
    /\ log = <<>>
    /\ last_call = NoCall
    /\ ret = "None"
    /\ RunnerOff

WinUpdate(d, s) ==
    /\ Len(log) < MaxWinUpdates
    /\ TwoPhase(Append(log, <<d, s>>))
    /\ det' = update(det, d, s)
    /\ log' = Append(log, <<d, s>>)
    /\ last_call' = [op |-> "update", density_level |-> d, speed_level |-> s]
    /\ ret' = "None"
    /\ UNCHANGED <<runner_vars, side_vars>>

NextWin ==
    \/ \E d \in DensityLevels, s \in SpeedLevels : WinUpdate(d, s)
    \/ GetState

SpecWin == InitWin /\ [][NextWin]_vars

----------------------------------------------------------------------------
(* Unit harness for the estimators: a run makes one call, on inputs drawn   *)
(* from small sets, and keeps its result in ret.                           *)

EstPolygon == <<<<0, 0>>, <<20, 0>>, <<20, 20>>, <<0, 20>>>>

EstRoi == <<0, 0, 20, 20>>

EstCapacities == {20, 60, 0, 0 - 20}

\* n cars whose centre is inside the lane
EstCars(n) == [i \in 1..n |-> [id |-> i, bbox |-> <<4, 4, 7, 9>>, cls |-> "car"]]

\* what else the list may hold: a motorbike, a class without weight, a car
\* outside the lane, a class name in capitals, a truck centred on the edge
EstExtras ==
    { <<>>,
      <<[id |-> 90, bbox |-> <<8, 8, 10, 10>>, cls |-> "motorbike"]>>,
      <<[id |-> 91, bbox |-> <<8, 8, 10, 10>>, cls |-> "person"]>>,
      <<[id |-> 92, bbox |-> <<30, 4, 34, 8>>, cls |-> "car"]>>,
      <<[id |-> 93, bbox |-> <<8, 8, 10, 10>>, cls |-> "Car"]>>,
      <<[id |-> 94, bbox |-> <<18, 4, 22, 8>>, cls |-> "truck"]>> }

EstPositions == {<<0, 0>>, <<3, 0>>, <<3, 4>>}

EstHistories == UNION {[1..n -> EstPositions] : n \in 0..MaxHistory}

\* fps handed to compute_average_speed: 2.0 and 5.0
EstRates == {<<2, 1>>, <<5, 1>>}

InitEst ==
    /\ det = CongestionDetector(DefaultWindowSize)
    /\ log = <<>>
    /\ last_call = NoCall
    /\ ret = "None"
    /\ RunnerOff

ComputeDensityPolygon(objs, poly, capacity) ==
    /\ last_call = NoCall
    /\ ret' = compute_density_polygon(objs, poly, capacity)
    /\ last_call' = [op |-> "compute_density_polygon", tracked_objects |-> objs,
                     lane_polygon |-> poly, road_capacity |-> capacity]
    /\ UNCHANGED <<det, log>>
    /\ UNCHANGED <<runner_vars, side_vars>>

ComputeDensity(objs, roi, capacity) ==
    /\ last_call = NoCall
    /\ ret' = compute_density(objs, roi, capacity)
    /\ last_call' = [op |-> "compute_density", tracked_objects |-> objs,
                     roi |-> roi, road_capacity |-> capacity]
    /\ UNCHANGED <<det, log>>
    /\ UNCHANGED <<runner_vars, side_vars>>

ComputeAverageSpeed(th, rate) ==
    /\ last_call = NoCall
    /\ ret' = compute_average_speed(th, rate)
    /\ last_call' = [op |-> "compute_average_speed", track_history |-> th, fps |-> rate]
    /\ UNCHANGED <<det, log>>
    /\ UNCHANGED <<runner_vars, side_vars>>

\* nominal frame rates of the video
EstNominalFps == {5, 10, 30}

\* pixels a vehicle advances per frame of the video
EstPixelsPerFrame == {0, 1, 2, 3}

\* The positions of a vehicle that advances d pixels per frame of the video
\* and is seen on every stride-th frame, n times.
StrideTrack(d, stride, n) == [k \in 1..n |-> <<(k - 1) * d * stride, 0>>]

ComputeLaneSpeed(lane_objects, th, nominal_fps) ==
    /\ last_call = NoCall
    /\ ret' = compute_lane_speed(lane_objects, th, nominal_fps)
    /\ last_call' = [op |-> "compute_lane_speed", lane_objects |-> lane_objects,
                     track_history |-> th, fps |-> nominal_fps]
    /\ UNCHANGED <<det, log>>
    /\ UNCHANGED <<runner_vars, side_vars>>

ComputeVehicleSpeed(track, nominal_fps) ==
    /\ last_call = NoCall
    /\ ret' = compute_vehicle_speed(track, nominal_fps)
    /\ last_call' = [op |-> "compute_vehicle_speed", track |-> track, fps |-> nominal_fps]
    /\ UNCHANGED <<det, log>>
    /\ UNCHANGED <<runner_vars, side_vars>>

\* simple 4-vertex polygons: a rectangle, a trapezoid, a skewed convex
\* quadrilateral and a concave one (reflex vertex at (4, 2))
EstQuads ==
    { <<<<0, 0>>, <<8, 0>>, <<8, 6>>, <<0, 6>>>>,
      <<<<0, 6>>, <<8, 6>>, <<6, 0>>, <<2, 0>>>>,
      <<<<1, 0>>, <<8, 2>>, <<6, 6>>, <<0, 4>>>>,
      <<<<0, 0>>, <<4, 2>>, <<8, 0>>, <<4, 6>>>> }

\* integer points around and inside them
EstPoints == {<<x, y>> : x \in (0 - 1)..9, y \in (0 - 1)..7}

PointInPolygon(point, polygon) ==
    /\ last_call = NoCall
    /\ ret' = point_in_polygon(point, polygon)
    /\ last_call' = [op |-> "point_in_polygon", point |-> point, polygon |-> polygon]
    /\ UNCHANGED <<det, log>>
    /\ UNCHANGED <<runner_vars, side_vars>>

\* A run makes one call: every disjunct is closed once a call was made.
NextEst ==
    \/ /\ last_call = NoCall
       /\ \E n \in 0..MaxCars, extra \in EstExtras, c \in EstCapacities :
             ComputeDensityPolygon(EstCars(n) \o extra, EstPolygon, c)
    \/ /\ last_call = NoCall
       /\ \E n \in 0..MaxCars, extra \in EstExtras, c \in EstCapacities :
             ComputeDensity(EstCars(n) \o extra, EstRoi, c)
    \/ /\ last_call = NoCall
       /\ \E ids \in {{1}, {1, 2}}, rate \in EstRates :
             \E th \in [ids -> EstHistories] : ComputeAverageSpeed(th, rate)
    \/ /\ last_call = NoCall
       /\ \E d \in EstPixelsPerFrame, stride \in 1..MaxStride, n \in 1..MaxHistory,
             f \in EstNominalFps :
             ComputeAverageSpeed(1 :> StrideTrack(d, stride, n), <<f, stride>>)
    \/ /\ last_call = NoCall
       /\ \E d \in EstPixelsPerFrame, n \in 1..MaxHistory, f \in EstNominalFps,
             other \in EstHistories :
             ComputeLaneSpeed(EstCars(1),
                              (1 :> StrideTrack(d, FRAME_SKIP, n)) @@ (2 :> other), f)
    \/ /\ last_call = NoCall
       /\ \E d \in EstPixelsPerFrame, n \in 0..MaxHistory, f \in EstNominalFps :
             ComputeVehicleSpeed(StrideTrack(d, FRAME_SKIP, n), f)
    \/ /\ last_call = NoCall
       /\ \E point \in EstPoints, polygon \in EstQuads : PointInPolygon(point, polygon)

SpecEst == InitEst /\ [][NextEst]_vars

----------------------------------------------------------------------------
(* runner_tc.py: the frame loop *)

RECURSIVE TrackBoxes_overwrite(_, _, _)
TrackBoxes_overwrite(boxes, th, objs) ==
    IF boxes = <<>>
    THEN [track_history |-> th, tracked_objects |-> objs]
    ELSE LET box == Head(boxes)
             cls == Lower(box.cls)
             tid == box.id
             c == Centroid(box.xyxy)
         IN  IF tid = NoId THEN TrackBoxes_overwrite(Tail(boxes), th, objs)
             ELSE IF cls \notin VehicleClasses THEN TrackBoxes_overwrite(Tail(boxes), th, objs)
             ELSE TrackBoxes_overwrite(Tail(boxes),
                             IF tid \in DOMAIN th
                             THEN [th EXCEPT ![tid] = <<c>>]
                             ELSE th @@ (tid :> <<c>>),
                             Append(objs, [id |-> tid, bbox |-> box.xyxy, cls |-> cls]))

RECURSIVE TrackBoxes_append_before_filter(_, _, _)
TrackBoxes_append_before_filter(boxes, th, objs) ==
    IF boxes = <<>>
    THEN [track_history |-> th, tracked_objects |-> objs]
    ELSE LET box == Head(boxes)
             cls == Lower(box.cls)
             tid == box.id
             c == Centroid(box.xyxy)
             appended == IF tid \in DOMAIN th
                         THEN [th EXCEPT ![tid] = Append(@, c)]
                         ELSE th @@ (tid :> <<c>>)
         IN  IF tid = NoId THEN TrackBoxes_append_before_filter(Tail(boxes), th, objs)
             ELSE IF cls \notin VehicleClasses
                  THEN TrackBoxes_append_before_filter(Tail(boxes), appended, objs)
             ELSE TrackBoxes_append_before_filter(Tail(boxes), appended,
                             Append(objs, [id |-> tid, bbox |-> box.xyxy, cls |-> cls]))

\* The loop over results.boxes: appends each kept box's centroid to its
\* track's history and collects the kept boxes as tracked_objects.
RECURSIVE TrackBoxes(_, _, _)
TrackBoxes(boxes, th, objs) ==
    IF boxes = <<>>
    THEN [track_history |-> th, tracked_objects |-> objs]
    ELSE LET box == Head(boxes)
             cls == Lower(box.cls)
             tid == box.id
             c == Centroid(box.xyxy)
         IN  IF tid = NoId THEN TrackBoxes(Tail(boxes), th, objs)
             ELSE IF cls \notin VehicleClasses THEN TrackBoxes(Tail(boxes), th, objs)
             ELSE TrackBoxes(Tail(boxes),
                             IF tid \in DOMAIN th
                             THEN [th EXCEPT ![tid] = Append(@, c)]
                             ELSE th @@ (tid :> <<c>>),
                             Append(objs, [id |-> tid, bbox |-> box.xyxy, cls |-> cls]))

\* Lane assignment: lane 1 if the centroid is in lane 1's polygon, else
\* lane 2 if it is in lane 2's polygon.
AssignLanes_independent(objs, poly1, poly2) ==
    LET in1(obj) == point_in_polygon(Centroid(obj.bbox), poly1)
        in2(obj) == point_in_polygon(Centroid(obj.bbox), poly2)
    IN  [lane1_objects |-> SelectSeq(objs, in1), lane2_objects |-> SelectSeq(objs, in2)]

AssignLanes(objs, poly1, poly2) ==
    LET in1(obj) == point_in_polygon(Centroid(obj.bbox), poly1)
        in2(obj) == ~ in1(obj) /\ point_in_polygon(Centroid(obj.bbox), poly2)
    IN  [lane1_objects |-> SelectSeq(objs, in1), lane2_objects |-> SelectSeq(objs, in2)]

UnitOff ==
    /\ SideOff
    /\ det = CongestionDetector(DefaultWindowSize)
    /\ log = <<>>
    /\ last_call = NoCall
    /\ ret = "None"

SkipFrame_any_frame ==
    /\ pc = "loop"
    /\ frame_count' = frame_count + 1
    /\ UNCHANGED <<pc, fps, road_capacity, lane1_poly, lane2_poly, results_boxes,
                   track_history, lane_detectors, tracked_objects, lane1_objects, lane2_objects,
                   d1, s1, state1, d2, s2, state2, lane_pc, frame_start>>
    /\ UNCHANGED <<unit_vars, side_vars>>

\* One iteration of the loop on a frame whose index is no multiple of
\* FRAME_SKIP: the frame is counted and dropped.
SkipFrame ==
    /\ pc = "loop"
    /\ (frame_count + 1) % FRAME_SKIP # 0
    /\ frame_count' = frame_count + 1
    /\ UNCHANGED <<pc, fps, road_capacity, lane1_poly, lane2_poly, results_boxes,
                   track_history, lane_detectors, tracked_objects, lane1_objects, lane2_objects,
                   d1, s1, state1, d2, s2, state2, lane_pc, frame_start>>
    /\ UNCHANGED <<unit_vars, side_vars>>

ProcessFrame_state_before_update(boxes, key) ==
    /\ pc = "loop"
    /\ (frame_count + 1) % FRAME_SKIP = 0
    /\ LET tr == TrackBoxes(boxes, track_history, <<>>)
           th == tr.track_history
           lanes == AssignLanes(tr.tracked_objects, lane1_poly, lane2_poly)
           l1 == lanes.lane1_objects
           l2 == lanes.lane2_objects
           nd1 == compute_density_polygon(l1, lane1_poly, road_capacity)
           ns1 == compute_lane_speed(l1, th, fps)
           det1 == update(lane_detectors[0], nd1.density_level, ns1.speed_level)
           nd2 == compute_density_polygon(l2, lane2_poly, road_capacity)
           ns2 == compute_lane_speed(l2, th, fps)
           det2 == update(lane_detectors[1], nd2.density_level, ns2.speed_level)
       IN  /\ frame_count' = frame_count + 1
           /\ results_boxes' = boxes
           /\ track_history' = th
           /\ tracked_objects' = tr.tracked_objects
           /\ lane1_objects' = l1
           /\ lane2_objects' = l2
           /\ d1' = nd1 /\ s1' = ns1
           /\ d2' = nd2 /\ s2' = ns2
           /\ lane_detectors' = [lane_detectors EXCEPT ![0] = det1, ![1] = det2]
           /\ state1' = get_state(lane_detectors[0])
           /\ state2' = get_state(lane_detectors[1])
    /\ pc' = IF key = "q" THEN "done" ELSE "loop"
    /\ UNCHANGED <<fps, road_capacity, lane1_poly, lane2_poly, lane_pc, frame_start>>
    /\ UNCHANGED <<unit_vars, side_vars>>

\* One iteration of the loop on a frame whose index is a multiple of
\* FRAME_SKIP.  boxes is what the tracker reports for the frame, key what
\* cv2.waitKey reads at the end of the iteration.
ProcessFrame(boxes, key) ==
    /\ pc = "loop"
    /\ (frame_count + 1) % FRAME_SKIP = 0
    /\ LET tr == TrackBoxes(boxes, track_history, <<>>)
           th == tr.track_history
           lanes == AssignLanes(tr.tracked_objects, lane1_poly, lane2_poly)
           l1 == lanes.lane1_objects
           l2 == lanes.lane2_objects
           nd1 == compute_density_polygon(l1, lane1_poly, road_capacity)
           ns1 == compute_lane_speed(l1, th, fps)
           det1 == update(lane_detectors[0], nd1.density_level, ns1.speed_level)
           nd2 == compute_density_polygon(l2, lane2_poly, road_capacity)
           ns2 == compute_lane_speed(l2, th, fps)
           det2 == update(lane_detectors[1], nd2.density_level, ns2.speed_level)
       IN  /\ frame_count' = frame_count + 1
           /\ results_boxes' = boxes
           /\ track_history' = th
           /\ tracked_objects' = tr.tracked_objects
           /\ lane1_objects' = l1
           /\ lane2_objects' = l2
           /\ d1' = nd1 /\ s1' = ns1
           /\ d2' = nd2 /\ s2' = ns2
           /\ lane_detectors' = [lane_detectors EXCEPT ![0] = det1, ![1] = det2]
           /\ state1' = get_state(det1)
           /\ state2' = get_state(det2)
    /\ pc' = IF key = "q" THEN "done" ELSE "loop"
    /\ UNCHANGED <<fps, road_capacity, lane1_poly, lane2_poly, lane_pc, frame_start>>
    /\ UNCHANGED <<unit_vars, side_vars>>

\* cap.read() fails: the loop ends
EndOfVideo ==
    /\ pc = "loop"
    /\ pc' = "done"
    /\ UNCHANGED <<fps, road_capacity, lane1_poly, lane2_poly, frame_count,
                   results_boxes, track_history, lane_detectors, tracked_objects, lane1_objects, lane2_objects,
                   d1, s1, state1, d2, s2, state2, lane_pc, frame_start>>
    /\ UNCHANGED <<unit_vars, side_vars>>

----------------------------------------------------------------------------
(* The runner on a small scene: two lanes, two tracks *)

\* lane_polygons.json: two lanes side by side that share an edge, and a
\* calibration in which lane 2 (a trapezoid) overlaps lane 1
LaneConfigs ==
    { << <<<<0, 0>>, <<20, 0>>, <<20, 10>>, <<0, 10>>>>,
         <<<<20, 0>>, <<40, 0>>, <<40, 10>>, <<20, 10>>>> >>,
      << <<<<0, 0>>, <<20, 0>>, <<20, 10>>, <<0, 10>>>>,
         <<<<10, 10>>, <<40, 10>>, <<38, 0>>, <<12, 0>>>> >> }

FpsValues == {10, 30}

\* boxes with centroids (5, 5), (20, 5), (30, 5) and (45, 5)
RunnerBoxes == {<<2, 2, 9, 9>>, <<17, 2, 23, 8>>, <<27, 2, 33, 8>>, <<42, 2, 48, 8>>}

\* What the tracker can report for a frame: track 1 as a car somewhere or as
\* a person, track 2 as a truck somewhere, and a box without an id.
TrackerOutputs ==
    LET t1 == {<<>>} \cup {<<[id |-> 1, cls |-> "car", xyxy |-> b]>> : b \in RunnerBoxes}
                     \cup {<<[id |-> 1, cls |-> "person", xyxy |-> <<2, 2, 9, 9>>]>>}
        t2 == {<<>>} \cup {<<[id |-> 2, cls |-> "Truck", xyxy |-> b]>> : b \in RunnerBoxes}
        t0 == {<<>>, <<[id |-> NoId, cls |-> "car", xyxy |-> <<17, 2, 23, 8>>]>>}
    IN  {a \o b \o c : a \in t0, b \in t1, c \in t2}

InitRunner ==
    /\ UnitOff
    /\ pc = "loop"
    /\ fps \in FpsValues
    /\ road_capacity = ROAD_CAPACITY
    /\ \E cfg \in LaneConfigs : lane1_poly = cfg[1] /\ lane2_poly = cfg[2]
    /\ frame_count = 0
    /\ results_boxes = <<>>
    /\ track_history = EmptyHistory
    /\ lane_detectors = [i \in {0, 1} |-> CongestionDetector(15)]
    /\ tracked_objects = <<>>
    /\ lane1_objects = <<>>
    /\ lane2_objects = <<>>
    /\ d1 = NoDensity /\ s1 = NoSpeed /\ state1 = "None"
    /\ d2 = NoDensity /\ s2 = NoSpeed /\ state2 = "None"
    /\ lane_pc = [i \in {0, 1} |-> 4]
    /\ frame_start = [i \in {0, 1} |-> CongestionDetector(15)]

NextRunner ==
    \/ frame_count < MaxFrames /\ SkipFrame
    \/ frame_count < MaxFrames /\ \E boxes \in TrackerOutputs, key \in {"q", "none"} :
                                     ProcessFrame(boxes, key)
    \/ EndOfVideo

SpecRunner == InitRunner /\ [][NextRunner]_vars

----------------------------------------------------------------------------
(* The runner on the scene of tests/test_congestion_simple.py: 25 cars in  *)
(* lane 1, all moving alike, at 10 fps.  A run has at most two phases of   *)
(* motion (every car advances 0 or 2 pixels per frame of the video).       *)

NumCars == 25

ScenarioFps == 10

\* pixels per frame of the video
ScenarioMotions == {0, 2}

\* the runner's ROAD_CAPACITY, the estimator's default, and a larger road
ScenarioCapacities == {20, 60, 100}

ScenarioLane1 == <<<<80, 180>>, <<2000, 180>>, <<2000, 320>>, <<80, 320>>>>

ScenarioLane2 == <<<<80, 320>>, <<2000, 320>>, <<2000, 460>>, <<80, 460>>>>

\* displacement of a track between consecutive processed frames
Moves(h) == [k \in 1..(Len(h) - 1) |-> h[k + 1][1] - h[k][1]]

\* moves of the cars so far (all cars move alike; track 0 stands for them)
CarMoves == IF 0 \in DOMAIN track_history THEN Moves(track_history[0]) ELSE <<>>

\* The tracker's boxes when every car has advanced dx since the last
\* processed frame: car i starts at (110 + 5 i, 215), box 20 x 30 around it.
ScenarioBoxes(dx) ==
    [n \in 1..NumCars |->
        LET i == n - 1
            x == IF i \in DOMAIN track_history
                 THEN track_history[i][Len(track_history[i])][1] + dx
                 ELSE 110 + i * 5
            y == 215
        IN  [id |-> i, cls |-> "car", xyxy |-> <<x - 10, y - 15, x + 10, y + 15>>]]

InitScenario ==
    /\ UnitOff
    /\ pc = "loop"
    /\ fps = ScenarioFps
    /\ road_capacity \in ScenarioCapacities
    /\ lane1_poly = ScenarioLane1
    /\ lane2_poly = ScenarioLane2
    /\ frame_count = 0
    /\ results_boxes = <<>>
    /\ track_history = EmptyHistory
    /\ lane_detectors = [i \in {0, 1} |-> CongestionDetector(15)]
    /\ tracked_objects = <<>>
    /\ lane1_objects = <<>>
    /\ lane2_objects = <<>>
    /\ d1 = NoDensity /\ s1 = NoSpeed /\ state1 = "None"
    /\ d2 = NoDensity /\ s2 = NoSpeed /\ state2 = "None"
    /\ lane_pc = [i \in {0, 1} |-> 4]
    /\ frame_start = [i \in {0, 1} |-> CongestionDetector(15)]

NextScenario ==
    \/ frame_count < MaxScenarioFrames /\ SkipFrame
    \/ /\ frame_count < MaxScenarioFrames
       /\ \E m \in ScenarioMotions :
             /\ track_history # EmptyHistory => TwoPhase(Append(CarMoves, m * FRAME_SKIP))
             /\ ProcessFrame(ScenarioBoxes(m * FRAME_SKIP), "none")

SpecScenario == InitScenario /\ [][NextScenario]_vars

----------------------------------------------------------------------------
(* The frame loop with the analysis of a frame taken statement by          *)
(* statement: each lane's four statements (density, speed, update,         *)
(* get_state) run in their order, the two lanes' statements in any         *)
(* interleaving.  The order of runner_tc.py, lane 1 then lane 2, is one of *)
(* the interleavings.                                                      *)

LaneUpdate_shared_detector(dets, i, density_level, speed_level) ==
    [k \in DOMAIN dets |-> update(dets[k], density_level, speed_level)]

\* lane_detectors[i].update(density_level, speed_level)
LaneUpdate(dets, i, density_level, speed_level) ==
    [dets EXCEPT ![i] = update(@, density_level, speed_level)]

\* two tracks, each absent or in lane 1 (5, 5) or in lane 2 (30, 5)
InterleaveOutputs ==
    LET spots == {<<2, 2, 9, 9>>, <<27, 2, 33, 8>>}
        t1 == {<<>>} \cup {<<[id |-> 1, cls |-> "car", xyxy |-> b]>> : b \in spots}
        t2 == {<<>>} \cup {<<[id |-> 2, cls |-> "Truck", xyxy |-> b]>> : b \in spots}
    IN  {a \o b : a \in t1, b \in t2}

\* A frame on the stride, up to the lane assignment
BeginFrame(boxes) ==
    /\ pc = "loop"
    /\ (frame_count + 1) % FRAME_SKIP = 0
    /\ LET tr == TrackBoxes(boxes, track_history, <<>>)
           lanes == AssignLanes(tr.tracked_objects, lane1_poly, lane2_poly)
       IN  /\ frame_count' = frame_count + 1
           /\ results_boxes' = boxes
           /\ track_history' = tr.track_history
           /\ tracked_objects' = tr.tracked_objects
           /\ lane1_objects' = lanes.lane1_objects
           /\ lane2_objects' = lanes.lane2_objects
    /\ pc' = "analysis"
    /\ lane_pc' = [i \in {0, 1} |-> 0]
    /\ frame_start' = lane_detectors
    /\ UNCHANGED <<fps, road_capacity, lane1_poly, lane2_poly, lane_detectors,
                   d1, s1, state1, d2, s2, state2>>
    /\ UNCHANGED <<unit_vars, side_vars>>

\* The next statement of lane 1's analysis (i = 0) or lane 2's (i = 1)
LaneStep(i) ==
    /\ pc = "analysis"
    /\ lane_pc[i] < 4
    /\ LET at == lane_pc[i]
           objs == IF i = 0 THEN lane1_objects ELSE lane2_objects
           poly == IF i = 0 THEN lane1_poly ELSE lane2_poly
           d == IF i = 0 THEN d1 ELSE d2
           s == IF i = 0 THEN s1 ELSE s2
           state == IF i = 0 THEN state1 ELSE state2
           nd == IF at = 0 THEN compute_density_polygon(objs, poly, road_capacity) ELSE d
           ns == IF at = 1 THEN compute_lane_speed(objs, track_history, fps) ELSE s
           nstate == IF at = 3 THEN get_state(lane_detectors[i]) ELSE state
       IN  /\ lane_detectors' = IF at = 2
                                THEN LaneUpdate(lane_detectors, i, d.density_level, s.speed_level)
                                ELSE lane_detectors
           /\ d1' = (IF i = 0 THEN nd ELSE d1)
           /\ s1' = (IF i = 0 THEN ns ELSE s1)
           /\ state1' = (IF i = 0 THEN nstate ELSE state1)
           /\ d2' = (IF i = 1 THEN nd ELSE d2)
           /\ s2' = (IF i = 1 THEN ns ELSE s2)
           /\ state2' = (IF i = 1 THEN nstate ELSE state2)
    /\ lane_pc' = [lane_pc EXCEPT ![i] = @ + 1]
    /\ UNCHANGED <<pc, fps, road_capacity, lane1_poly, lane2_poly, frame_count,
                   results_boxes, track_history, tracked_objects,
                   lane1_objects, lane2_objects, frame_start>>
    /\ UNCHANGED <<unit_vars, side_vars>>

\* Both lanes analysed: log, draw, and the key read by cv2.waitKey
EndFrame(key) ==
    /\ pc = "analysis"
    /\ \A i \in {0, 1} : lane_pc[i] = 4
    /\ pc' = IF key = "q" THEN "done" ELSE "loop"
    /\ UNCHANGED <<fps, road_capacity, lane1_poly, lane2_poly, frame_count,
                   results_boxes, track_history, lane_detectors, tracked_objects,
                   lane1_objects, lane2_objects, d1, s1, state1, d2, s2, state2,
                   lane_pc, frame_start>>
    /\ UNCHANGED <<unit_vars, side_vars>>

NextInterleave ==
    \/ frame_count < MaxFrames /\ SkipFrame
    \/ frame_count < MaxFrames /\ \E boxes \in InterleaveOutputs : BeginFrame(boxes)
    \/ \E i \in {0, 1} : LaneStep(i)
    \/ \E key \in {"q", "none"} : EndFrame(key)
    \/ EndOfVideo

SpecInterleave == InitRunner /\ [][NextInterleave]_vars

----------------------------------------------------------------------------
(* The runner from its start: the lane polygons are read from the JSON     *)
(* file, then the frame loop runs.                                         *)

\* lane_polygons.json as the calibration tool writes it (LaneConfigs), and
\* files it does not write: lane_1 with three vertices, lane_1 crossing
\* itself (a bow-tie)
LoadConfigs ==
    LaneConfigs \cup
    { << <<<<0, 0>>, <<20, 0>>, <<0, 10>>>>,
         <<<<20, 0>>, <<40, 0>>, <<40, 10>>, <<20, 10>>>> >>,
      << <<<<0, 0>>, <<20, 10>>, <<20, 0>>, <<0, 10>>>>,
         <<<<20, 0>>, <<40, 0>>, <<40, 10>>, <<20, 10>>>> >> }

InitLoad ==
    /\ UnitOff
    /\ RunnerOff

\* json.load, lane_data["lane_1"], lane_data["lane_2"], and the
\* initialization up to the loop; f is the video's frame rate
LoadLanes(cfg, f) ==
    /\ pc = "off"
    /\ lane1_poly' = cfg[1]
    /\ lane2_poly' = cfg[2]
    /\ fps' = f
    /\ frame_count' = 0
    /\ track_history' = EmptyHistory
    /\ road_capacity' = ROAD_CAPACITY
    /\ lane_detectors' = [i \in {0, 1} |-> CongestionDetector(15)]
    /\ pc' = "loop"
    /\ UNCHANGED <<results_boxes, tracked_objects, lane1_objects, lane2_objects,
                   d1, s1, state1, d2, s2, state2, lane_pc, frame_start>>
    /\ UNCHANGED <<unit_vars, side_vars>>

NextLoad ==
    \/ \E cfg \in LoadConfigs, f \in FpsValues : LoadLanes(cfg, f)
    \/ frame_count < MaxFrames /\ SkipFrame
    \/ frame_count < MaxFrames /\ \E boxes \in InterleaveOutputs, key \in {"q", "none"} :
                                     ProcessFrame(boxes, key)
    \/ EndOfVideo

SpecLoad == InitLoad /\ [][NextLoad]_vars

----------------------------------------------------------------------------
(* parking_module.py: ParkingManager *)

\* None as a vehicle_id and as an occupied_since
NoVehicle == 0 - 1

NoTime == 0 - 1

\* the status record define_parking_slots gives a slot
FreshStatus == [status |-> "available", vehicle_id |-> NoVehicle, occupied_since |-> NoTime]

SlotIds(slots) == {slots[k].id : k \in 1..Len(slots)}

\* define_parking_slots: slot_status after the call (parking_slots becomes
\* slots); entries of ids that are not in slots stay as they are
define_parking_slots(status, slots) ==
    [id \in DOMAIN status \cup SlotIds(slots) |->
        IF id \in SlotIds(slots) THEN FreshStatus ELSE status[id]]

\* The slots auto_define_grid_slots builds, row by row, ids from 1.  (The
\* keys "row" and "col" of a slot, which nothing reads, are left out.)
grid_slots(rows, cols, start_x, start_y, slot_width, slot_height, gap_x, gap_y) ==
    [n \in 1..(rows * cols) |->
        LET row == (n - 1) \div cols
            col == (n - 1) % cols
            x1 == start_x + col * (slot_width + gap_x)
            y1 == start_y + row * (slot_height + gap_y)
            x2 == x1 + slot_width
            y2 == y1 + slot_height
        IN  [id |-> n, polygon |-> <<<<x1, y1>>, <<x2, y1>>, <<x2, y2>>, <<x1, y2>>>>]]

\* index of the first object whose centroid is set and inside or on the
\* polygon, 0 if there is none (the inner loop of check_slot_occupancy)
RECURSIVE FirstInside(_, _, _)
FirstInside(objs, polygon, k) ==
    IF k > Len(objs) THEN 0
    ELSE IF objs[k].centroid # <<>> /\ pointPolygonTest(polygon, objs[k].centroid) >= 0
         THEN k
         ELSE FirstInside(objs, polygon, k + 1)

\* the loop over self.parking_slots of check_slot_occupancy
RECURSIVE CheckSlots(_, _, _, _)
CheckSlots(slots, status, objs, now) ==
    IF slots = <<>> THEN status
    ELSE LET slot_id == Head(slots).id
             k == FirstInside(objs, Head(slots).polygon, 1)
         IN  IF k = 0 THEN CheckSlots(Tail(slots), status, objs, now)
             ELSE CheckSlots(Tail(slots),
                     [status EXCEPT ![slot_id] =
                         [status |-> "occupied",
                          vehicle_id |-> objs[k].track_id,
                          occupied_since |-> IF status[slot_id].status = "available"
                                             THEN now ELSE @.occupied_since]],
                     objs, now)

\* check_slot_occupancy without the reset at its start
check_slot_occupancy_no_reset(slots, status, objs, now) ==
    CheckSlots(slots, status, objs, now)

\* check_slot_occupancy: slot_status after the call.  Every entry is first
\* reset to available with no vehicle, then the slots are looked at in turn.
check_slot_occupancy(slots, status, objs, now) ==
    LET reset == [id \in DOMAIN status |->
                     [status[id] EXCEPT !.status = "available", !.vehicle_id = NoVehicle]]
    IN  CheckSlots(slots, reset, objs, now)

\* get_availability_summary (location and timestamp left out);
\* occupancy_rate = occupied_slots / total_slots * 100 as a quotient
get_availability_summary(slots, status) ==
    LET total_slots == Len(slots)
        occupied_slots == Cardinality({id \in DOMAIN status : status[id].status = "occupied"})
    IN  [total_slots |-> total_slots,
         available_slots |-> total_slots - occupied_slots,
         occupied_slots |-> occupied_slots,
         occupancy_rate |-> IF total_slots > 0 THEN <<occupied_slots * 100, total_slots>>
                            ELSE <<0, 1>>]

\* create_smc_parking_config: the three custom slots
SmcSlots ==
    << [id |-> 1, polygon |-> <<<<100, 200>>, <<300, 200>>, <<300, 320>>, <<100, 320>>>>],
       [id |-> 2, polygon |-> <<<<330, 200>>, <<530, 200>>, <<530, 320>>, <<330, 320>>>>],
       [id |-> 3, polygon |-> <<<<560, 200>>, <<760, 200>>, <<760, 320>>, <<560, 320>>>>] >>

\* slot lists handed to define_parking_slots: the three, and the first alone
CustomSlotLists == {SmcSlots, SubSeq(SmcSlots, 1, 1)}

\* Tracked vehicles.  Against the default grid (slot 1 = 50..200 x 100..180,
\* slot 2 = 220..370 x 100..180, second row 200..280): inside slot 1, on
\* slot 1's right edge, in the gap between slots 1 and 2, inside slot 2,
\* without centroid, and in the second row's first slot, which is also on
\* the left edge of the first custom slot.
ParkedA == [track_id |-> 1, centroid |-> <<100, 140>>]
ParkedB == [track_id |-> 2, centroid |-> <<200, 150>>]
ParkedC == [track_id |-> 3, centroid |-> <<210, 140>>]
ParkedD == [track_id |-> 4, centroid |-> <<300, 140>>]
ParkedE == [track_id |-> 5, centroid |-> <<>>]
ParkedF == [track_id |-> 6, centroid |-> <<100, 240>>]

ParkedLists ==
    { <<>>, <<ParkedA>>, <<ParkedB>>, <<ParkedC>>, <<ParkedD>>, <<ParkedE>>, <<ParkedF>>,
      <<ParkedE, ParkedA>>, <<ParkedB, ParkedA>>, <<ParkedA, ParkedB>>,
      <<ParkedC, ParkedD>>, <<ParkedA, ParkedD, ParkedF>> }

InitParking ==
    /\ UnitOff
    /\ RunnerOff

DefineParkingSlots(slots) ==
    /\ parking_slots' = slots
    /\ slot_status' = define_parking_slots(slot_status, slots)
    /\ last_call' = [op |-> "define_parking_slots"]
    /\ ret' = "None"
    /\ UNCHANGED <<det, log, clock>>
    /\ UNCHANGED <<runner_vars, cal_vars>>

\* auto_define_grid_slots with the default geometry
AutoDefineGridSlots(rows, cols) ==
    LET slots == grid_slots(rows, cols, 50, 100, 150, 80, 20, 20)
    IN  /\ parking_slots' = slots
        /\ slot_status' = define_parking_slots(slot_status, slots)
        /\ last_call' = [op |-> "auto_define_grid_slots"]
        /\ ret' = "None"
        /\ UNCHANGED <<det, log, clock>>
        /\ UNCHANGED <<runner_vars, cal_vars>>

\* check_slot_occupancy(objs), at a later time than every call before
CheckSlotOccupancy(objs) ==
    /\ clock < MaxChecks
    /\ clock' = clock + 1
    /\ slot_status' = check_slot_occupancy(parking_slots, slot_status, objs, clock + 1)
    /\ last_call' = [op |-> "check_slot_occupancy", tracked_objects |-> objs]
    /\ ret' = slot_status'
    /\ UNCHANGED <<det, log, parking_slots>>
    /\ UNCHANGED <<runner_vars, cal_vars>>

GetAvailabilitySummary ==
    /\ ret' = get_availability_summary(parking_slots, slot_status)
    /\ last_call' = [op |-> "get_availability_summary"]
    /\ UNCHANGED <<det, log>>
    /\ UNCHANGED parking_vars
    /\ UNCHANGED <<runner_vars, cal_vars>>

NextParking ==
    \/ \E slots \in CustomSlotLists : DefineParkingSlots(slots)
    \/ \E rows \in 1..2, cols \in 1..2 : AutoDefineGridSlots(rows, cols)
    \/ \E objs \in ParkedLists : CheckSlotOccupancy(objs)
    \/ GetAvailabilitySummary

SpecParking == InitParking /\ [][NextParking]_vars

----------------------------------------------------------------------------
(* callibaration-lanes/callibirate_lanes.py: the lane calibration tool *)

\* the frame's size (w, h of the first frame)
CalFrameWidth == 8

CalFrameHeight == 8

\* where the user may click
CalClicks == {<<1, 1>>, <<6, 2>>, <<5, 6>>, <<0, 5>>}

RECURSIVE SumCoord(_, _)
SumCoord(pts, c) ==
    IF pts = <<>> THEN 0 ELSE Head(pts)[c] + SumCoord(Tail(pts), c)

\* Where arctan2(dy, dx) lies: 0 for (-pi, 0), 1 for 0 (the zero vector too),
\* 2 for (0, pi), 3 for pi.
AngleClass(v) ==
    IF v[2] < 0 THEN 0
    ELSE IF v[2] = 0 /\ v[1] >= 0 THEN 1
    ELSE IF v[2] > 0 THEN 2
    ELSE 3

\* arctan2 of a is less than arctan2 of b
AngleLess(a, b) ==
    \/ AngleClass(a) < AngleClass(b)
    \/ /\ AngleClass(a) = AngleClass(b)
       /\ AngleClass(a) \in {0, 2}
       /\ a[1] * b[2] - a[2] * b[1] > 0

\* order_polygon: the points sorted by their angle about the mean point
\* (points of equal angle in the order given).  The offsets from the mean
\* are taken times the number of points, which keeps them whole.
order_polygon(pts) ==
    LET n == Len(pts)
        off(i) == <<n * pts[i][1] - SumCoord(pts, 1), n * pts[i][2] - SumCoord(pts, 2)>>
        before(j, i) == AngleLess(off(j), off(i))
                        \/ (~AngleLess(off(i), off(j)) /\ j < i)
        rank(i) == Cardinality({j \in 1..n : before(j, i)}) + 1
    IN  [r \in 1..n |-> pts[CHOOSE i \in 1..n : rank(i) = r]]

InitCal ==
    /\ UnitOff
    /\ RunnerOff

\* mouse_callback(EVENT_LBUTTONDOWN, x, y)
MouseClick(x, y) ==
    /\ cal_pc = "loop"
    /\ points' = IF Len(points[current_lane]) < 4
                 THEN [points EXCEPT ![current_lane] = Append(@, <<x, y>>)]
                 ELSE points
    /\ UNCHANGED <<current_lane, cal_pc, out_file>>
    /\ UNCHANGED <<unit_vars, runner_vars, parking_vars>>

\* key 'n' switching to the lower lane whatever the upper lane holds
KeyN_switch_always ==
    /\ cal_pc = "loop"
    /\ current_lane' = "lower"
    /\ UNCHANGED <<points, cal_pc, out_file>>
    /\ UNCHANGED <<unit_vars, runner_vars, parking_vars>>

\* key 'n'
KeyN ==
    /\ cal_pc = "loop"
    /\ current_lane' = IF current_lane = "upper" /\ Len(points["upper"]) = 4
                       THEN "lower"
                       ELSE current_lane
    /\ UNCHANGED <<points, cal_pc, out_file>>
    /\ UNCHANGED <<unit_vars, runner_vars, parking_vars>>

\* key 's': with 4 points for each lane the loop ends and the polygons are
\* ordered and written; otherwise a warning
KeyS ==
    /\ cal_pc = "loop"
    /\ IF Len(points["upper"]) = 4 /\ Len(points["lower"]) = 4
       THEN /\ cal_pc' = "saved"
            /\ out_file' = [written |-> TRUE,
                            lane_1 |-> order_polygon(points["upper"]),
                            lane_2 |-> order_polygon(points["lower"]),
                            frame_width |-> CalFrameWidth,
                            frame_height |-> CalFrameHeight]
       ELSE UNCHANGED <<cal_pc, out_file>>
    /\ UNCHANGED <<current_lane, points>>
    /\ UNCHANGED <<unit_vars, runner_vars, parking_vars>>

\* key 'r'
KeyR ==
    /\ cal_pc = "loop"
    /\ points' = [upper |-> <<>>, lower |-> <<>>]
    /\ current_lane' = "upper"
    /\ UNCHANGED <<cal_pc, out_file>>
    /\ UNCHANGED <<unit_vars, runner_vars, parking_vars>>

\* key 'q'
KeyQ ==
    /\ cal_pc = "loop"
    /\ cal_pc' = "quit"
    /\ UNCHANGED <<current_lane, points, out_file>>
    /\ UNCHANGED <<unit_vars, runner_vars, parking_vars>>

NextCal ==
    \/ \E p \in CalClicks : MouseClick(p[1], p[2])
    \/ KeyN
    \/ KeyS
    \/ KeyR
    \/ KeyQ

SpecCal == InitCal /\ [][NextCal]_vars

----------------------------------------------------------------------------
(* db.py: get_density_history; predictive_layer.py: detect_congestion_trend *)

\* vehicle_count values of the stored density records
TrendCounts == {0, 10}

\* The density collection: records in the order they were inserted, which
\* is the order of their timestamps; up to MaxRecords of them.
DensityCollections ==
    UNION {[1..n -> [vehicle_count : TrendCounts]] : n \in 0..MaxRecords}

\* get_density_history(limit): the latest limit records, latest first
get_density_history(col, limit) ==
    LET n == IF Len(col) < limit THEN Len(col) ELSE limit
    IN  [i \in 1..n |-> col[Len(col) + 1 - i]]

\* detect_congestion_trend: the two means are compared as quotients,
\* first_half_avg = Sum(first_half) / n1 and second_half_avg = Sum(second_half) / n2
detect_congestion_trend(col) ==
    LET recent_data == get_density_history(col, 10)
        counts == [i \in 1..Len(recent_data) |-> recent_data[i].vehicle_count]
        mid == Len(counts) \div 2
        first_half == SubSeq(counts, 1, mid)
        second_half == SubSeq(counts, mid + 1, Len(counts))
        n1 == Len(first_half)
        n2 == Len(second_half)
    IN  IF Len(recent_data) < 5 THEN "stable"
        ELSE IF Sum(second_half) * n1 - Sum(first_half) * n2 > 5 * n1 * n2 THEN "increasing"
        ELSE IF Sum(first_half) * n2 - Sum(second_half) * n1 > 5 * n1 * n2 THEN "decreasing"
        ELSE "stable"

InitTrend ==
    /\ UnitOff
    /\ RunnerOff

\* detect_congestion_trend() with col as the density collection
DetectCongestionTrend(col) ==
    /\ last_call = NoCall
    /\ ret' = detect_congestion_trend(col)
    /\ last_call' = [op |-> "detect_congestion_trend", density_col |-> col]
    /\ UNCHANGED <<det, log>>
    /\ UNCHANGED <<runner_vars, side_vars>>

NextTrend == \E col \in DensityCollections : DetectCongestionTrend(col)

SpecTrend == InitTrend /\ [][NextTrend]_vars

----------------------------------------------------------------------------
(* Claims *)

\* C1: with window_size N and n valid updates so far, density_hist and
\* speed_hist both have length min(n, N) <= N and hold, in arrival order, the
\* density codes (LOW 0, MEDIUM 1, HIGH 2) and the speed codes (HIGH 0,
\* MEDIUM 1, LOW 2) of the most recent min(n, N) valid updates.
C1_WindowIsMostRecent ==
    LET n == Len(log)
        N == det.window_size
        m == IF n < N THEN n ELSE N
        dcode(l) == CASE l = "LOW" -> 0 [] l = "MEDIUM" -> 1 [] l = "HIGH" -> 2
        scode(l) == CASE l = "HIGH" -> 0 [] l = "MEDIUM" -> 1 [] l = "LOW" -> 2
    IN  /\ m <= N
        /\ Len(det.density_hist) = m
        /\ Len(det.speed_hist) = m
        /\ \A i \in 1..m :
              /\ det.density_hist[i] = dcode(log[n - m + i][1])
              /\ det.speed_hist[i] = scode(log[n - m + i][2])

\* C1 witness: a window of size 2 that has seen three valid updates, the
\* first of them (HIGH, LOW) and now evicted.
C1_Witness ==
    /\ det.window_size = 2
    /\ log = <<<<"HIGH", "LOW">>, <<"LOW", "HIGH">>, <<"MEDIUM", "LOW">>>>
    /\ det.density_hist = <<0, 1>>
    /\ det.speed_hist = <<0, 2>>

C5_UnknownIffNoValidUpdate ==
    /\ (get_state(det) = "UNKNOWN") <=> (log = <<>>)
    /\ last_call.op = "get_state" => ((ret = "UNKNOWN") <=> (log = <<>>))

\* C5 witness: get_state was called after a single valid update on a window
\* larger than 1 and answered something else than UNKNOWN.
C5_Witness ==
    /\ last_call.op = "get_state"
    /\ Len(log) = 1
    /\ det.window_size > 1
    /\ ret # "UNKNOWN"

\* C3: on a non-empty window get_state returns the first matching rule on the
\* two means: (1) both >= 1.6 SEVERE_CONGESTION, (2) density >= 1.0 and
\* speed >= 1.2 HIGH_CONGESTION, (3) density >= 1.5 and speed < 1.2
\* MODERATE_CONGESTION, (4) density < 0.5 FREE_FLOW, (5) NORMAL; so density
\* >= 1.5 with 1.2 <= speed < 1.6 is HIGH_CONGESTION.
C3_FirstMatchingRule ==
    (last_call.op = "get_state" /\ det.density_hist # <<>> /\ det.speed_hist # <<>>) =>
        LET nd == Len(det.density_hist)
            ns == Len(det.speed_hist)
            \* the means, in tenths, times the lengths
            D == 10 * Sum(det.density_hist)
            S == 10 * Sum(det.speed_hist)
            r1 == D >= 16 * nd /\ S >= 16 * ns
            r2 == D >= 10 * nd /\ S >= 12 * ns
            r3 == D >= 15 * nd /\ S < 12 * ns
            r4 == D < 5 * nd
        IN  /\ r1 => ret = "SEVERE_CONGESTION"
            /\ (~r1 /\ r2) => ret = "HIGH_CONGESTION"
            /\ (~r1 /\ ~r2 /\ r3) => ret = "MODERATE_CONGESTION"
            /\ (~r1 /\ ~r2 /\ ~r3 /\ r4) => ret = "FREE_FLOW"
            /\ (~r1 /\ ~r2 /\ ~r3 /\ ~r4) => ret = "NORMAL"
            /\ (D >= 15 * nd /\ S >= 12 * ns /\ S < 16 * ns) => ret = "HIGH_CONGESTION"

\* C3 witness: get_state answered HIGH_CONGESTION on a full window with
\* density mean 2 (30/15) and speed mean 1.33.. (20/15).
C3_Witness ==
    /\ last_call.op = "get_state"
    /\ Len(det.density_hist) = 15
    /\ Sum(det.density_hist) = 30
    /\ Sum(det.speed_hist) = 20
    /\ ret = "HIGH_CONGESTION"

\* C4: the thresholds are inclusive at their boundary: means exactly 1.6 and
\* 1.6 give SEVERE_CONGESTION (sums 24 and 24 over 15 entries), means exactly
\* 1.0 and 1.2 give HIGH_CONGESTION (sums 15 and 18 over 15 entries).
C4_BoundaryInclusive ==
    last_call.op = "get_state" =>
        LET nd == Len(det.density_hist)
            ns == Len(det.speed_hist)
            sd == Sum(det.density_hist)
            ss == Sum(det.speed_hist)
        IN  /\ (nd > 0 /\ ns > 0 /\ 5 * sd = 8 * nd /\ 5 * ss = 8 * ns)
                  => ret = "SEVERE_CONGESTION"
            /\ (nd > 0 /\ ns > 0 /\ sd = nd /\ 5 * ss = 6 * ns)
                  => ret = "HIGH_CONGESTION"
            /\ (nd = 15 /\ ns = 15 /\ sd = 24 /\ ss = 24) => ret = "SEVERE_CONGESTION"
            /\ (nd = 15 /\ ns = 15 /\ sd = 15 /\ ss = 18) => ret = "HIGH_CONGESTION"

\* C4 witness: get_state was called on 15 entries with sums 24 and 24.
C4_Witness ==
    /\ last_call.op = "get_state"
    /\ Len(det.density_hist) = 15 /\ Len(det.speed_hist) = 15
    /\ Sum(det.density_hist) = 24 /\ Sum(det.speed_hist) = 24
    /\ ret = "SEVERE_CONGESTION"

\* The other boundary of C4: 15 entries with sums 15 and 18.
C4_WitnessHigh ==
    /\ last_call.op = "get_state"
    /\ Len(det.density_hist) = 15 /\ Len(det.speed_hist) = 15
    /\ Sum(det.density_hist) = 15 /\ Sum(det.speed_hist) = 18
    /\ ret = "HIGH_CONGESTION"

\* C9: with a positive capacity the density level follows the ratio
\* occupancy / road_capacity in half-open buckets: below 0.4 LOW, from 0.4
\* and below 0.7 MEDIUM, from 0.7 HIGH; 8 / 20 is MEDIUM and 14 / 20 is HIGH.
C9_DensityBuckets ==
    (/\ last_call.op \in {"compute_density_polygon", "compute_density"}
     /\ last_call.road_capacity > 0) =>
        LET occ == ret.occupancy            \* occ[1] / occ[2]
            cap == last_call.road_capacity
            \* ratio = occ[1] / (occ[2] * cap); compared in tenths
            num == 10 * occ[1]
            den == occ[2] * cap
        IN  /\ ret.density_ratio[1] * den = occ[1] * ret.density_ratio[2]
            /\ (num < 4 * den) => ret.density_level = "LOW"
            /\ (num >= 4 * den /\ num < 7 * den) => ret.density_level = "MEDIUM"
            /\ (num >= 7 * den) => ret.density_level = "HIGH"
            /\ (occ[1] = 8 * occ[2] /\ cap = 20) => ret.density_level = "MEDIUM"
            /\ (occ[1] = 14 * occ[2] /\ cap = 20) => ret.density_level = "HIGH"

\* C9 witness: compute_density_polygon found occupancy 8 with capacity 20
\* (ratio exactly 0.4) and answered MEDIUM.
C9_Witness ==
    /\ last_call.op = "compute_density_polygon"
    /\ last_call.road_capacity = 20
    /\ ret.occupancy[1] = 8 * ret.occupancy[2]
    /\ ret.density_level = "MEDIUM"

\* The other boundary of C9, on compute_density: occupancy 14, capacity 20.
C9_WitnessHigh ==
    /\ last_call.op = "compute_density"
    /\ last_call.road_capacity = 20
    /\ ret.occupancy[1] = 14 * ret.occupancy[2]
    /\ ret.density_level = "HIGH"

\* C10: the speed level follows avg_speed in half-open buckets: below 10
\* LOW, from 10 and below 20 MEDIUM, from 20 HIGH.
C10_SpeedBuckets ==
    last_call.op = "compute_average_speed" =>
        LET a == ret.avg_speed              \* a[1] / a[2]
        IN  /\ a[2] > 0
            /\ (a[1] < 10 * a[2]) => ret.speed_level = "LOW"
            /\ (a[1] >= 10 * a[2] /\ a[1] < 20 * a[2]) => ret.speed_level = "MEDIUM"
            /\ (a[1] >= 20 * a[2]) => ret.speed_level = "HIGH"
            /\ (a[1] = 10 * a[2]) => ret.speed_level = "MEDIUM"
            /\ (a[1] = 20 * a[2]) => ret.speed_level = "HIGH"

\* C10 witness: compute_average_speed found an average of exactly 10 over
\* two tracks and answered MEDIUM.
C10_Witness ==
    /\ last_call.op = "compute_average_speed"
    /\ ret.avg_speed[1] = 10 * ret.avg_speed[2]
    /\ Cardinality({t \in DOMAIN last_call.track_history :
                       Len(last_call.track_history[t]) >= 2}) = 2
    /\ ret.speed_level = "MEDIUM"

\* The other boundary of C10: an average of exactly 20.
C10_WitnessHigh ==
    /\ last_call.op = "compute_average_speed"
    /\ ret.avg_speed[1] = 20 * ret.avg_speed[2]
    /\ ret.speed_level = "HIGH"

\* C8: in a processed frame an object is in lane 1's list iff its centroid is
\* inside or on lane 1's polygon, in lane 2's list iff it is not in lane 1's
\* and its centroid is inside or on lane 2's polygon, and in neither list
\* otherwise; no track id is in both lists.
C8_LaneExclusive ==
    LET cross(a, b, p) == (b[1] - a[1]) * (p[2] - a[2]) - (b[2] - a[2]) * (p[1] - a[1])
        prev(poly, i) == poly[IF i = 1 THEN Len(poly) ELSE i - 1]
        \* inside or on a convex polygon: never strictly on both sides of its edges
        InsideOrOn(p, poly) ==
            \/ \A i \in 1..Len(poly) : cross(prev(poly, i), poly[i], p) >= 0
            \/ \A i \in 1..Len(poly) : cross(prev(poly, i), poly[i], p) <= 0
        centre(obj) == <<(obj.bbox[1] + obj.bbox[3]) \div 2, (obj.bbox[2] + obj.bbox[4]) \div 2>>
        In(obj, lane) == \E j \in 1..Len(lane) : lane[j] = obj
        ids(lane) == {lane[j].id : j \in 1..Len(lane)}
    IN  /\ \A i \in 1..Len(tracked_objects) :
              LET obj == tracked_objects[i]
                  in1 == InsideOrOn(centre(obj), lane1_poly)
                  in2 == InsideOrOn(centre(obj), lane2_poly)
              IN  /\ In(obj, lane1_objects) <=> in1
                  /\ In(obj, lane2_objects) <=> (~ in1 /\ in2)
                  /\ ~ (In(obj, lane1_objects) /\ In(obj, lane2_objects))
        /\ ids(lane1_objects) \cap ids(lane2_objects) = {}
        /\ \A j \in 1..Len(lane1_objects) : In(lane1_objects[j], tracked_objects)
        /\ \A j \in 1..Len(lane2_objects) : In(lane2_objects[j], tracked_objects)

\* C8 witness: with overlapping polygons, track 1 is centred at (20, 5),
\* inside lane 2 and on lane 1's edge, and is in lane 1's list only, while
\* track 2 is in lane 2's list.
C8_Witness ==
    /\ lane2_poly[1] = <<10, 10>>
    /\ Len(tracked_objects) = 2
    /\ tracked_objects[1].id = 1
    /\ tracked_objects[1].bbox = <<17, 2, 23, 8>>
    /\ pointPolygonTest(lane2_poly, <<20, 5>>) = 1
    /\ lane1_objects = <<tracked_objects[1]>>
    /\ lane2_objects = <<tracked_objects[2]>>

\* C6: once the 25 cars have stood still for 15 consecutive processed frames
\* with density ratio >= 0.7, whatever the window held before, both windows
\* of lane 1 hold fifteen 2s (means 2 and 2) and the state is
\* SEVERE_CONGESTION; every frame on which the cars stand still with density
\* ratio >= 0.7 gives density level HIGH and speed level LOW.
C6_JamConverges ==
    LET moves == CarMoves
        n == Len(moves)
        dense == 10 * d1.density_ratio[1] >= 7 * d1.density_ratio[2]
        still == n >= 1 /\ moves[n] = 0
        jam15 == n >= 15 /\ \A k \in (n - 14)..n : moves[k] = 0
        w == lane_detectors[0]
    IN  /\ (still /\ dense) =>
              /\ d1.density_level = "HIGH"
              /\ s1.speed_level = "LOW"
              /\ s1.avg_speed[1] = 0
        /\ (jam15 /\ dense) =>
              /\ w.density_hist = [i \in 1..15 |-> 2]
              /\ w.speed_hist = [i \in 1..15 |-> 2]
              /\ Sum(w.density_hist) = 2 * Len(w.density_hist)
              /\ Sum(w.speed_hist) = 2 * Len(w.speed_hist)
              /\ state1 = "SEVERE_CONGESTION"

\* C6 witness: the cars moved for some frames and then stood still for
\* fifteen, on the runner's capacity, and lane 1 is SEVERE_CONGESTION.
C6_Witness ==
    /\ Len(CarMoves) >= 17
    /\ CarMoves[1] = 30 /\ CarMoves[2] = 30
    /\ \A k \in (Len(CarMoves) - 14)..Len(CarMoves) : CarMoves[k] = 0
    /\ CarMoves[Len(CarMoves) - 15] = 30
    /\ road_capacity = 20
    /\ Len(lane1_objects) = 25
    /\ state1 = "SEVERE_CONGESTION"

\* C7 as claimed: while the 25 cars move 2 pixels per frame at 10 fps from
\* an empty window, on each of the first 10 processed frames the speed level
\* is HIGH and the state is FREE_FLOW or NORMAL, never SEVERE_CONGESTION.
C7_Original ==
    LET moves == CarMoves
        k == Len(moves) + 1           \* processed frames so far
    IN  (/\ track_history # EmptyHistory
         /\ k <= 10
         /\ \A j \in 1..Len(moves) : moves[j] = 2 * FRAME_SKIP) =>
            /\ s1.speed_level = "HIGH"
            /\ state1 \in {"FREE_FLOW", "NORMAL"}
            /\ state1 # "SEVERE_CONGESTION"

\* C7 as amended: on the first of those frames no track has two positions,
\* the speed level is LOW and the state is SEVERE_CONGESTION,
\* HIGH_CONGESTION or FREE_FLOW for density HIGH, MEDIUM or LOW; on each of
\* the next nine the speed level is HIGH and the state is
\* MODERATE_CONGESTION, NORMAL or FREE_FLOW for density HIGH, MEDIUM or LOW,
\* never SEVERE_CONGESTION.
C7_FreeFlowRun ==
    LET moves == CarMoves
        k == Len(moves) + 1
        dl == d1.density_level
    IN  (/\ track_history # EmptyHistory
         /\ k <= 10
         /\ \A j \in 1..Len(moves) : moves[j] = 2 * FRAME_SKIP) =>
            /\ dl \in {"LOW", "MEDIUM", "HIGH"}
            /\ k = 1 =>
                  /\ s1.speed_level = "LOW"
                  /\ dl = "HIGH" => state1 = "SEVERE_CONGESTION"
                  /\ dl = "MEDIUM" => state1 = "HIGH_CONGESTION"
                  /\ dl = "LOW" => state1 = "FREE_FLOW"
            /\ k >= 2 =>
                  /\ s1.speed_level = "HIGH"
                  /\ s1.avg_speed[1] = 20 * s1.avg_speed[2]
                  /\ dl = "HIGH" => state1 = "MODERATE_CONGESTION"
                  /\ dl = "MEDIUM" => state1 = "NORMAL"
                  /\ dl = "LOW" => state1 = "FREE_FLOW"
                  /\ state1 # "SEVERE_CONGESTION"

\* C7 witness: the tenth processed frame of such a run on the runner's
\* capacity, all 25 cars in lane 1, state MODERATE_CONGESTION.
C7_Witness ==
    /\ Len(CarMoves) = 9
    /\ \A j \in 1..9 : CarMoves[j] = 30
    /\ road_capacity = 20
    /\ Len(lane1_objects) = 25
    /\ d1.density_level = "HIGH"
    /\ s1.speed_level = "HIGH"
    /\ state1 = "MODERATE_CONGESTION"

\* The detector's half of C6 on the unit harness: after fifteen consecutive
\* updates (HIGH, LOW), whatever came before, both buffers hold fifteen 2s
\* and get_state answers SEVERE_CONGESTION.
C6_UnitJamWindow ==
    (/\ Len(log) >= 15
     /\ \A k \in (Len(log) - 14)..Len(log) : log[k] = <<"HIGH", "LOW">>) =>
        /\ det.density_hist = [i \in 1..15 |-> 2]
        /\ det.speed_hist = [i \in 1..15 |-> 2]
        /\ get_state(det) = "SEVERE_CONGESTION"

C6_UnitJamWitness ==
    /\ Len(log) = 30
    /\ log[1] = <<"LOW", "HIGH">>
    /\ log[15] = <<"LOW", "HIGH">>
    /\ log[16] = <<"HIGH", "LOW">>
    /\ get_state(det) = "SEVERE_CONGESTION"

\* C11: compute_average_speed returns the average, over exactly the tracks
\* with at least 2 positions, of the distance between the track's last two
\* positions times fps; shorter tracks count neither in the sum nor in the
\* denominator, positions before the last two play no part, and avg_speed is
\* 0 when no track qualifies.
C11_AverageOfLastDisplacements ==
    last_call.op = "compute_average_speed" =>
        LET th == last_call.track_history
            rate == last_call.fps
            qualifying == {t \in DOMAIN th : Len(th[t]) >= 2}
            last_move(t) ==
                IF t \in qualifying
                THEN LET a == th[t][Len(th[t]) - 1]
                         b == th[t][Len(th[t])]
                         sq == (b[1] - a[1]) * (b[1] - a[1]) + (b[2] - a[2]) * (b[2] - a[2])
                     IN  CHOOSE r \in 0..sq : r * r = sq
                ELSE 0
            total == last_move(1) + last_move(2)
            n == Cardinality(qualifying)
        IN  /\ DOMAIN th \subseteq {1, 2}
            /\ n = 0 => ret.avg_speed[1] = 0
            /\ n > 0 => /\ ret.avg_speed[2] > 0
                        /\ ret.avg_speed[1] * (n * rate[2])
                              = total * rate[1] * ret.avg_speed[2]

\* C11 witness: track 1 has three positions of which the first is far from
\* the last two (3 pixels apart), track 2 has one position; at fps 5 the
\* average is 15.
C11_Witness ==
    /\ last_call.op = "compute_average_speed"
    /\ DOMAIN last_call.track_history = {1, 2}
    /\ last_call.track_history[1] = <<<<3, 4>>, <<0, 0>>, <<3, 0>>>>
    /\ last_call.track_history[2] = <<<<3, 4>>>>
    /\ last_call.fps = <<5, 1>>
    /\ ret.avg_speed[1] = 15 * ret.avg_speed[2]

\* C12: when a processed frame assigns no object to a lane, that lane's
\* density result is occupancy 0, ratio 0, level LOW, its speed result is
\* avg_speed 0, level LOW, and the lane's detector takes in the pair
\* (LOW, LOW): code 0 at the end of density_hist, code 2 at the end of
\* speed_hist.
C12_EmptyLane ==
    [][ (frame_count' # frame_count /\ frame_count' % FRAME_SKIP = 0) =>
            LET Received(old, new) ==
                    /\ Len(new.density_hist) =
                          (IF Len(old.density_hist) < 15 THEN Len(old.density_hist) + 1 ELSE 15)
                    /\ Len(new.speed_hist) = Len(new.density_hist)
                    /\ new.density_hist[Len(new.density_hist)] = DENSITY_SCORE["LOW"]
                    /\ new.speed_hist[Len(new.speed_hist)] = SPEED_SCORE["LOW"]
                Empty(d, s) ==
                    /\ d.occupancy[1] = 0
                    /\ d.density_ratio[1] = 0
                    /\ d.density_level = "LOW"
                    /\ s.avg_speed[1] = 0
                    /\ s.speed_level = "LOW"
            IN  /\ lane1_objects' = <<>> =>
                      Empty(d1', s1') /\ Received(lane_detectors[0], lane_detectors'[0])
                /\ lane2_objects' = <<>> =>
                      Empty(d2', s2') /\ Received(lane_detectors[1], lane_detectors'[1]) ]_vars

\* C12 witness: the second processed frame at 30 fps; track 1 has moved from
\* (30, 5) to (45, 5), out of both lanes, so lane 1 and lane 2 are empty
\* while the history holds a fast track, and both detectors took (LOW, LOW).
C12_Witness ==
    /\ frame_count = 2 * FRAME_SKIP
    /\ fps = 30
    /\ lane1_objects = <<>>
    /\ lane2_objects = <<>>
    /\ Len(tracked_objects) = 1
    /\ 1 \in DOMAIN track_history
    /\ track_history[1] = <<<<30, 5>>, <<45, 5>>>>
    /\ d1.density_level = "LOW" /\ s1.speed_level = "LOW"
    /\ lane_detectors[0].density_hist = <<0, 0>>
    /\ lane_detectors[0].speed_hist = <<2, 2>>
    /\ lane_detectors[1].speed_hist = <<2, 2>>

\* C13: with road_capacity <= 0, compute_density_polygon and compute_density
\* return density_ratio 0 and density_level LOW, whatever the occupancy.
C13_NoCapacity ==
    (/\ last_call.op \in {"compute_density_polygon", "compute_density"}
     /\ last_call.road_capacity <= 0) =>
        /\ ret.density_ratio[1] = 0
        /\ ret.density_ratio[2] > 0
        /\ ret.density_level = "LOW"

\* C13 witness: fourteen cars in the lane (occupancy 14.0) and capacity -20
\* handed to compute_density_polygon
C13_Witness ==
    /\ last_call.op = "compute_density_polygon"
    /\ last_call.road_capacity = 0 - 20
    /\ ret.occupancy = <<14 * WeightDen, WeightDen>>
    /\ ret.density_ratio[1] = 0
    /\ ret.density_level = "LOW"

\* the same for compute_density with capacity 0
C13_WitnessRoi ==
    /\ last_call.op = "compute_density"
    /\ last_call.road_capacity = 0
    /\ ret.occupancy[1] >= 14 * WeightDen
    /\ ret.density_ratio[1] = 0
    /\ ret.density_level = "LOW"

\* C14: a frame whose index (frame_count after counting it) is no multiple
\* of FRAME_SKIP leaves the track history, both lanes' windows, the object
\* lists and the emitted results as they were; a frame whose index is a
\* multiple of FRAME_SKIP has both lanes analysed: each lane gets a density
\* and a speed result, each detector takes one update, and a state is
\* emitted for each lane.  Nothing of this changes without a frame read.
C14_OnlyEveryStrideFrame ==
    [][ LET processing_state == <<track_history, lane_detectors, tracked_objects,
                                  lane1_objects, lane2_objects,
                                  d1, s1, state1, d2, s2, state2>>
            Analysed(old, new, d, s, state) ==
                /\ Len(new.density_hist) =
                      (IF Len(old.density_hist) < 15 THEN Len(old.density_hist) + 1 ELSE 15)
                /\ Len(new.speed_hist) = Len(new.density_hist)
                /\ d.density_level \in DensityLevels
                /\ s.speed_level \in SpeedLevels
                /\ new.density_hist[Len(new.density_hist)] = DENSITY_SCORE[d.density_level]
                /\ new.speed_hist[Len(new.speed_hist)] = SPEED_SCORE[s.speed_level]
                /\ state # "None" /\ state # "UNKNOWN"
        IN  /\ frame_count' \in {frame_count, frame_count + 1}
            /\ (frame_count' = frame_count \/ frame_count' % FRAME_SKIP # 0) =>
                  processing_state' = processing_state
            /\ (frame_count' # frame_count /\ frame_count' % FRAME_SKIP = 0) =>
                  /\ Analysed(lane_detectors[0], lane_detectors'[0], d1', s1', state1')
                  /\ Analysed(lane_detectors[1], lane_detectors'[1], d2', s2', state2') ]_vars

\* C14 witness: frame 29, the fourteenth dropped frame after frame 15 was
\* processed with a vehicle in it; one update per lane so far.
C14_Witness ==
    /\ frame_count = 2 * FRAME_SKIP - 1
    /\ track_history # EmptyHistory
    /\ Len(tracked_objects) = 2
    /\ Len(lane_detectors[0].density_hist) = 1
    /\ Len(lane_detectors[1].density_hist) = 1
    /\ state1 \in {"FREE_FLOW", "NORMAL"}
    /\ state2 \in {"FREE_FLOW", "NORMAL"}

C15_WitnessStride ==
    /\ last_call.op = "compute_average_speed"
    /\ last_call.fps = <<10, 4>>
    /\ last_call.track_history[1] = <<<<0, 0>>, <<4, 0>>, <<8, 0>>>>
    /\ ret.avg_speed[1] = 10 * ret.avg_speed[2]
    /\ ret.speed_level = "MEDIUM"

C15_WitnessVehicle ==
    /\ last_call.op = "compute_vehicle_speed"
    /\ last_call.fps = 30
    /\ last_call.track = <<<<0, 0>>, <<30, 0>>>>
    /\ ret[1] = 60 * ret[2]

\* C16: track histories are append-only.  In every step, every id that has
\* a history keeps it as a prefix of its history after the step (no position
\* is removed, moved or overwritten, no id is dropped), and an id seen for
\* the first time starts from the empty history: it holds just the position
\* appended in that step.  (Prefix is transitive, so the history in any
\* state is a prefix of the history in every later state.)
C16_HistoryAppendOnly ==
    [][ /\ DOMAIN track_history \subseteq DOMAIN track_history'
        /\ \A t \in DOMAIN track_history :
              /\ Len(track_history[t]) <= Len(track_history'[t])
              /\ SubSeq(track_history'[t], 1, Len(track_history[t])) = track_history[t]
        /\ \A t \in DOMAIN track_history' \ DOMAIN track_history :
              Len(track_history'[t]) = 1 ]_vars

\* C16 witness: after the second processed frame track 1 holds its two
\* positions in arrival order and track 2, first seen in that frame, one.
C16_Witness ==
    /\ frame_count = 2 * FRAME_SKIP
    /\ DOMAIN track_history = {1, 2}
    /\ track_history[1] = <<<<30, 5>>, <<5, 5>>>>
    /\ track_history[2] = <<<<20, 5>>>>

\* C17: in one processed frame the history of a track id grows by exactly
\* one position, the centroid of its box, if the tracker reported the id in
\* that frame with one of the five vehicle classes, and by nothing
\* otherwise (id not reported, reported as another class, box without id);
\* outside processed frames no history grows.
C17_OneAppendPerFrame ==
    [][ LET Hist(th, t) == IF t \in DOMAIN th THEN th[t] ELSE <<>>
            processed == frame_count' # frame_count /\ frame_count' % FRAME_SKIP = 0
            Kept(box) == /\ box.id # NoId
                         /\ Lower(box.cls) \in {"car", "truck", "bus", "motorbike", "bicycle"}
            reported == IF processed
                        THEN {i \in 1..Len(results_boxes') : Kept(results_boxes'[i])}
                        ELSE {}
            ids == DOMAIN track_history \cup DOMAIN track_history'
                      \cup {results_boxes'[i].id : i \in reported}
        IN  \A t \in ids :
               LET old == Hist(track_history, t)
                   new == Hist(track_history', t)
                   mine == {i \in reported : results_boxes'[i].id = t}
               IN  /\ Len(new) <= Len(old) + 1
                   /\ mine = {} => Len(new) = Len(old)
                   /\ mine # {} =>
                         /\ Len(new) = Len(old) + 1
                         /\ \E i \in mine :
                               LET b == results_boxes'[i].xyxy
                               IN  new[Len(new)] = <<(b[1] + b[3]) \div 2, (b[2] + b[4]) \div 2>> ]_vars

\* C17 witness: the second processed frame reported a box without id,
\* track 1 as a person and track 2 as a truck at (30, 5); track 1 keeps the
\* one position it had, track 2 has gained its second.
C17_Witness ==
    /\ frame_count = 2 * FRAME_SKIP
    /\ Len(results_boxes) = 3
    /\ results_boxes[1].id = NoId
    /\ results_boxes[2] = [id |-> 1, cls |-> "person", xyxy |-> <<2, 2, 9, 9>>]
    /\ results_boxes[3] = [id |-> 2, cls |-> "Truck", xyxy |-> <<27, 2, 33, 8>>]
    /\ DOMAIN track_history = {1, 2}
    /\ track_history[1] = <<<<20, 5>>>>
    /\ track_history[2] = <<<<5, 5>>, <<30, 5>>>>

\* C18: within a frame the two lanes' analyses are independent.  A statement
\* of one lane's analysis leaves the other lane's detector (density_hist and
\* speed_hist) and the other lane's results as they are; and when both
\* lanes' statements have run, in whatever interleaving, the two windows,
\* the two density and speed results and the two states are those of the
\* sequential order, lane 1 then lane 2, computed from the detectors the
\* frame started with.
C18_LanesIndependent ==
    [][ /\ (pc = "analysis" /\ pc' = "analysis") =>
              /\ lane_pc'[0] # lane_pc[0] =>
                    /\ lane_detectors'[1] = lane_detectors[1]
                    /\ <<d2', s2', state2'>> = <<d2, s2, state2>>
              /\ lane_pc'[1] # lane_pc[1] =>
                    /\ lane_detectors'[0] = lane_detectors[0]
                    /\ <<d1', s1', state1'>> = <<d1, s1, state1>>
        /\ (pc' = "analysis" /\ lane_pc'[0] = 4 /\ lane_pc'[1] = 4) =>
              LET sd1 == compute_density_polygon(lane1_objects', lane1_poly', road_capacity')
                  ss1 == compute_lane_speed(lane1_objects', track_history', fps')
                  det1 == update(frame_start'[0], sd1.density_level, ss1.speed_level)
                  sd2 == compute_density_polygon(lane2_objects', lane2_poly', road_capacity')
                  ss2 == compute_lane_speed(lane2_objects', track_history', fps')
                  det2 == update(frame_start'[1], sd2.density_level, ss2.speed_level)
              IN  /\ d1' = sd1 /\ s1' = ss1
                  /\ d2' = sd2 /\ s2' = ss2
                  /\ lane_detectors'[0] = det1
                  /\ lane_detectors'[1] = det2
                  /\ state1' = get_state(det1)
                  /\ state2' = get_state(det2) ]_vars

\* C18 witness: in the second processed frame, with a car in lane 1 and a
\* truck in lane 2, lane 2's four statements have run before any of lane 1's.
C18_Witness ==
    /\ pc = "analysis"
    /\ frame_count = 2 * FRAME_SKIP
    /\ lane_pc[0] = 0
    /\ lane_pc[1] = 4
    /\ Len(lane1_objects) = 1
    /\ Len(lane2_objects) = 1
    /\ Len(lane_detectors[0].density_hist) = 1
    /\ Len(lane_detectors[1].density_hist) = 2

\* the two lanes' statements alternating, both lanes half way
C18_WitnessInterleaved ==
    /\ pc = "analysis"
    /\ frame_count = 2 * FRAME_SKIP
    /\ lane_pc[0] = 3
    /\ lane_pc[1] = 2
    /\ Len(lane1_objects) = 1
    /\ Len(lane2_objects) = 1
    /\ Len(lane_detectors[0].density_hist) = 2
    /\ Len(lane_detectors[1].density_hist) = 1

\* C19: no frame is read with invalid lane geometry: once the loop has read
\* a frame, lane_1 and lane_2 both have exactly 4 vertices and neither
\* crosses itself (a configuration that fails this is rejected at load time).
C19_NoFrameWithInvalidGeometry ==
    LET Orient(a, b, c) == (b[1] - a[1]) * (c[2] - a[2]) - (b[2] - a[2]) * (c[1] - a[1])
        Meet(a, b, c, d) ==
            /\ Orient(a, b, c) * Orient(a, b, d) <= 0
            /\ Orient(c, d, a) * Orient(c, d, b) <= 0
        Valid(poly) ==
            /\ Len(poly) = 4
            /\ ~ Meet(poly[1], poly[2], poly[3], poly[4])
            /\ ~ Meet(poly[2], poly[3], poly[4], poly[1])
    IN  frame_count > 0 => Valid(lane1_poly) /\ Valid(lane2_poly)

\* The runner, loaded with a three-vertex lane_1, has processed frame 15
\* with a car in that lane.
C19_TriangleProcessed ==
    /\ Len(lane1_poly) = 3
    /\ frame_count = FRAME_SKIP
    /\ Len(lane1_objects) = 1
    /\ state1 = "FREE_FLOW"

\* C20: get_state does not change the detector (window_size, density_hist
\* and speed_hist stay as they are), and what it returns is a function of
\* the two buffers' contents alone: UNKNOWN if either is empty, else the
\* first rule that their two averages match, whatever window_size is and
\* whatever updates came before; so a second call with no update in
\* between returns the same state.
C20_GetStateIsPure ==
    [][ last_call'.op = "get_state" =>
            LET dh == det.density_hist
                sh == det.speed_hist
                Total(q) == Sum(q)
                OfBuffers ==
                    IF Len(dh) = 0 \/ Len(sh) = 0 THEN "UNKNOWN"
                    ELSE IF 10 * Total(dh) >= 16 * Len(dh) /\ 10 * Total(sh) >= 16 * Len(sh)
                         THEN "SEVERE_CONGESTION"
                    ELSE IF 10 * Total(dh) >= 10 * Len(dh) /\ 10 * Total(sh) >= 12 * Len(sh)
                         THEN "HIGH_CONGESTION"
                    ELSE IF 10 * Total(dh) >= 15 * Len(dh) /\ 10 * Total(sh) < 12 * Len(sh)
                         THEN "MODERATE_CONGESTION"
                    ELSE IF 10 * Total(dh) < 5 * Len(dh) THEN "FREE_FLOW"
                    ELSE "NORMAL"
            IN  /\ det' = det
                /\ ret' = OfBuffers
                /\ last_call.op = "get_state" => ret' = ret ]_vars

\* C20 witness: a detector of window 1 after three valid updates, the last
\* (HIGH, LOW); get_state has answered SEVERE_CONGESTION from the one entry
\* in each buffer, which is still there.
C20_Witness ==
    /\ last_call.op = "get_state"
    /\ det.window_size = 1
    /\ Len(log) = 3
    /\ log[1] = <<"LOW", "HIGH">>
    /\ det.density_hist = <<2>>
    /\ det.speed_hist = <<2>>
    /\ ret = "SEVERE_CONGESTION"

\* C21: for a simple 4-vertex polygon, point_in_polygon gives the same
\* answer for the vertex list started at any of its vertices and for the
\* list reversed (the other winding), and answers TRUE for a point on an
\* edge or at a vertex.
C21_WindingAndStartInvariant ==
    last_call.op = "point_in_polygon" =>
        LET p == last_call.point
            poly == last_call.polygon
            Rotated(q, k) == [i \in 1..4 |-> q[((i + k - 1) % 4) + 1]]
            Reversed(q) == [i \in 1..4 |-> q[5 - i]]
            Orient(a, b, c) == (b[1] - a[1]) * (c[2] - a[2]) - (b[2] - a[2]) * (c[1] - a[1])
            Between(u, v, w) == (u <= w /\ w <= v) \/ (v <= w /\ w <= u)
            OnEdge(a, b) == /\ Orient(a, b, p) = 0
                            /\ Between(a[1], b[1], p[1])
                            /\ Between(a[2], b[2], p[2])
            OnBoundary == \E i \in 1..4 : OnEdge(poly[i], poly[(i % 4) + 1])
        IN  /\ \A k \in 0..3 :
                  /\ point_in_polygon(p, Rotated(poly, k)) = ret
                  /\ point_in_polygon(p, Reversed(Rotated(poly, k))) = ret
            /\ OnBoundary => ret = TRUE

\* C21 witness: the point (6, 1), on the slanted edge from (8, 0) to (4, 2)
\* of the concave quadrilateral, is found inside
C21_Witness ==
    /\ last_call.op = "point_in_polygon"
    /\ last_call.polygon = <<<<0, 0>>, <<4, 2>>, <<8, 0>>, <<4, 6>>>>
    /\ last_call.point = <<6, 1>>
    /\ ret = TRUE

\* a vertex of the trapezoid, and a point outside the concave quadrilateral
\* in its notch
C21_WitnessVertex ==
    /\ last_call.op = "point_in_polygon"
    /\ last_call.polygon = <<<<0, 6>>, <<8, 6>>, <<6, 0>>, <<2, 0>>>>
    /\ last_call.point = <<6, 0>>
    /\ ret = TRUE

C21_WitnessOutside ==
    /\ last_call.op = "point_in_polygon"
    /\ last_call.polygon = <<<<0, 0>>, <<4, 2>>, <<8, 0>>, <<4, 6>>>>
    /\ last_call.point = <<4, 1>>
    /\ ret = FALSE

\* C22: in a processed frame the centroids are appended first, the objects
\* are partitioned next, then each lane's density and speed are computed,
\* its detector is updated, and only then its state is read.  So every
\* object's track ends with the object's centroid of this frame, each speed
\* result is the one of the histories with this frame's positions in them,
\* each detector has taken exactly one update, the codes of this frame's
\* levels (also for an empty lane), and each emitted state is the state of
\* the window with these codes in it.
C22_FrameStepOrder ==
    [][ (frame_count' # frame_count /\ frame_count' % FRAME_SKIP = 0) =>
            LET centre(obj) == <<(obj.bbox[1] + obj.bbox[3]) \div 2,
                                 (obj.bbox[2] + obj.bbox[4]) \div 2>>
                Appended(objs) ==
                    \A k \in 1..Len(objs) :
                        /\ objs[k].id \in DOMAIN track_history'
                        /\ track_history'[objs[k].id][Len(track_history'[objs[k].id])]
                              = centre(objs[k])
                OneUpdate(old, new, d, s) ==
                    /\ new.density_hist =
                          (IF Len(old.density_hist) < 15 THEN old.density_hist
                           ELSE Tail(old.density_hist)) \o <<DENSITY_SCORE[d.density_level]>>
                    /\ new.speed_hist =
                          (IF Len(old.speed_hist) < 15 THEN old.speed_hist
                           ELSE Tail(old.speed_hist)) \o <<SPEED_SCORE[s.speed_level]>>
            IN  /\ Appended(tracked_objects')
                /\ \A k \in 1..Len(tracked_objects') :
                      Len(SelectSeq(lane1_objects' \o lane2_objects',
                                    LAMBDA o : o = tracked_objects'[k])) <= 1
                /\ s1' = compute_lane_speed(lane1_objects', track_history', fps')
                /\ s2' = compute_lane_speed(lane2_objects', track_history', fps')
                /\ OneUpdate(lane_detectors[0], lane_detectors'[0], d1', s1')
                /\ OneUpdate(lane_detectors[1], lane_detectors'[1], d2', s2')
                /\ state1' = get_state(lane_detectors'[0])
                /\ state2' = get_state(lane_detectors'[1]) ]_vars

\* C22 witness: the second processed frame at 30 fps; the car of track 1 has
\* moved from (5, 5) to (20, 5) within lane 1: its speed 30 (HIGH) counts
\* this frame's position, lane 1's window holds both frames' codes, lane 2,
\* empty in both frames, has taken its two updates as well.
C22_Witness ==
    /\ frame_count = 2 * FRAME_SKIP
    /\ fps = 30
    /\ DOMAIN track_history = {1}
    /\ track_history[1] = <<<<5, 5>>, <<20, 5>>>>
    /\ Len(lane1_objects) = 1
    /\ s1.avg_speed[1] = 30 * s1.avg_speed[2]
    /\ lane_detectors[0].density_hist = <<0, 0>>
    /\ lane_detectors[0].speed_hist = <<2, 0>>
    /\ lane_detectors[1].speed_hist = <<2, 2>>
    /\ state1 = "FREE_FLOW"

\* C23 as stated: when the window of size 15 holds 15 identical pairs, one
\* further update with any other valid pair leaves get_state's answer as it
\* was.
C23_Original ==
    [][ (/\ Len(log) >= 15
         /\ \A k \in (Len(log) - 14)..Len(log) : log[k] = log[Len(log)]
         /\ Len(log') = Len(log) + 1
         /\ log'[Len(log')] # log[Len(log)]) =>
            get_state(det') = get_state(det) ]_vars

\* C23, amended: the same, but for a window full of (MEDIUM, LOW): its
\* average density is exactly 1.0, the lower bound of HIGH_CONGESTION, and
\* one update with density LOW takes it to 14/15, so the state goes from
\* HIGH_CONGESTION to NORMAL; an update with density HIGH leaves it.
C23_SmoothsOneFrame ==
    [][ (/\ Len(log) >= 15
         /\ \A k \in (Len(log) - 14)..Len(log) : log[k] = log[Len(log)]
         /\ Len(log') = Len(log) + 1
         /\ log'[Len(log')] # log[Len(log)]) =>
            IF log[Len(log)] = <<"MEDIUM", "LOW">> /\ log'[Len(log')][1] = "LOW"
            THEN get_state(det) = "HIGH_CONGESTION" /\ get_state(det') = "NORMAL"
            ELSE get_state(det') = get_state(det) ]_vars

\* C23 witness: fifteen (HIGH, LOW) and then one (LOW, HIGH): the window
\* holds fourteen 2s and a 0 in each buffer, the state is still
\* SEVERE_CONGESTION.
C23_Witness ==
    /\ Len(log) = 16
    /\ \A k \in 1..15 : log[k] = <<"HIGH", "LOW">>
    /\ log[16] = <<"LOW", "HIGH">>
    /\ Sum(det.density_hist) = 28
    /\ Sum(det.speed_hist) = 28
    /\ get_state(det) = "SEVERE_CONGESTION"

\* the exception: fifteen (MEDIUM, LOW) and then one (LOW, LOW)
C23_WitnessThreshold ==
    /\ Len(log) = 16
    /\ \A k \in 1..15 : log[k] = <<"MEDIUM", "LOW">>
    /\ log[16] = <<"LOW", "LOW">>
    /\ get_state(det) = "NORMAL"

\* C24: density_hist and speed_hist have the same length after any sequence
\* of update and get_state calls, also when an update carries exactly one
\* invalid level (such an update appends to neither).
C24_BuffersSameLength ==
    /\ Len(det.density_hist) = Len(det.speed_hist)
    /\ Len(det.density_hist) <= det.window_size

\* C24 witness: after two valid updates, an update with a valid density
\* level and an invalid speed level has been made; both buffers hold two.
C24_Witness ==
    /\ last_call.op = "update"
    /\ last_call.density_level = "HIGH"
    /\ last_call.speed_level = "low"
    /\ Len(log) = 2
    /\ det.window_size = 3
    /\ Len(det.density_hist) = 2
    /\ Len(det.speed_hist) = 2

\* C25: a lane all of whose tracks have one position so far (every lane on
\* the first processed frame, a lane holding only newly seen vehicles later)
\* gets avg_speed 0 and speed level LOW, and code 2 enters the lane's
\* speed window for the frame.
C25_FirstSightingIsSlow ==
    [][ (frame_count' # frame_count /\ frame_count' % FRAME_SKIP = 0) =>
            LET SeenOnce(objs) ==
                    \A k \in 1..Len(objs) : Len(track_history'[objs[k].id]) = 1
                Slow(s, new) ==
                    /\ s.avg_speed[1] = 0
                    /\ s.speed_level = "LOW"
                    /\ new.speed_hist[Len(new.speed_hist)] = 2
            IN  /\ SeenOnce(lane1_objects') => Slow(s1', lane_detectors'[0])
                /\ SeenOnce(lane2_objects') => Slow(s2', lane_detectors'[1])
                /\ frame_count' = FRAME_SKIP =>
                      SeenOnce(lane1_objects') /\ SeenOnce(lane2_objects') ]_vars

\* C25 witness: the second processed frame at 30 fps.  The truck of track 2
\* is seen for the first time, in lane 1, which gets LOW; the car of track 1
\* has moved from (45, 5) to (30, 5) into lane 2, which gets HIGH.
C25_Witness ==
    /\ frame_count = 2 * FRAME_SKIP
    /\ fps = 30
    /\ DOMAIN track_history = {1, 2}
    /\ Len(lane1_objects) = 1
    /\ lane1_objects[1].id = 2
    /\ track_history[2] = <<<<5, 5>>>>
    /\ track_history[1] = <<<<45, 5>>, <<30, 5>>>>
    /\ s1.avg_speed[1] = 0
    /\ s1.speed_level = "LOW"
    /\ s2.speed_level = "HIGH"
    /\ lane_detectors[0].speed_hist = <<2, 2>>
    /\ lane_detectors[1].speed_hist = <<2, 0>>

\* ---------------------------------------------------------------------------
\* C26: after check_slot_occupancy(objs) every defined slot is "occupied"
\* exactly when some object of objs has a centroid inside or on the slot's
\* polygon, with the track_id of the first such object as vehicle_id, and is
\* "available" with vehicle_id None otherwise, whatever it was before.
\* (Slot ids are unique, as in every slot list the repository builds.)
ObjectsInSlot(objs, polygon) ==
    {j \in 1..Len(objs) :
        /\ objs[j].centroid # <<>>
        /\ pointPolygonTest(polygon, objs[j].centroid) >= 0}

C26_WitnessReleased ==
    /\ last_call # NoCall /\ last_call.op = "check_slot_occupancy"
    /\ last_call.tracked_objects = <<ParkedC>>
    /\ Len(parking_slots) >= 1
    /\ slot_status[1].status = "available"
    /\ slot_status[1].occupied_since # NoTime

\* ---------------------------------------------------------------------------
\* C27: whatever calls came before, get_availability_summary reports as
\* total_slots the number of slots defined now, as occupied_slots the number
\* of slots defined now whose status is "occupied", and available_slots =
\* total_slots - occupied_slots, between 0 and total_slots.
OccupiedDefinedSlots ==
    {k \in 1..Len(parking_slots) : slot_status[parking_slots[k].id].status = "occupied"}

C27_SummaryCountsDefinedSlots ==
    last_call # NoCall /\ last_call.op = "get_availability_summary" =>
        /\ ret.total_slots = Len(parking_slots)
        /\ ret.occupied_slots = Cardinality(OccupiedDefinedSlots)
        /\ ret.available_slots = ret.total_slots - ret.occupied_slots
        /\ 0 <= ret.available_slots
        /\ ret.available_slots <= ret.total_slots

\* a summary that reports fewer than zero available slots
C27_NegativeAvailable ==
    /\ last_call # NoCall /\ last_call.op = "get_availability_summary"
    /\ ret.available_slots < 0

\* ---------------------------------------------------------------------------
\* C28: occupied_since is set only when a slot goes from available to
\* occupied: a slot found occupied by two check_slot_occupancy calls in a
\* row keeps the occupied_since the first of them gave it.
C28_OccupiedSinceKept ==
    [][ clock' = clock + 1 =>
          \A k \in 1..Len(parking_slots) :
              LET id == parking_slots[k].id
              IN  slot_status[id].status = "occupied" /\ slot_status'[id].status = "occupied"
                    => slot_status'[id].occupied_since = slot_status[id].occupied_since ]_vars

\* slot 1 is occupied after the second check, by the vehicle that was in it
\* at the first, and its occupied_since is the time of the second check
C28_SinceOverwritten ==
    /\ last_call # NoCall /\ last_call.op = "check_slot_occupancy"
    /\ last_call.tracked_objects = <<ParkedA>>
    /\ clock = 2
    /\ Len(parking_slots) >= 1
    /\ slot_status[1].status = "occupied"
    /\ slot_status[1].occupied_since = 2

\* ---------------------------------------------------------------------------
\* C29: in the calibration tool, whatever is clicked and pressed, no lane
\* holds more than 4 points, the lower lane gets points only once the upper
\* lane holds exactly 4, the file is written only from a state where both
\* lanes hold exactly 4 points, with 4 vertices for lane_1 and for lane_2,
\* and q never writes the file.
C29_CalibrationSafe ==
    /\ [](/\ Len(points["upper"]) <= 4
         /\ Len(points["lower"]) <= 4
         /\ (Len(points["lower"]) > 0 => Len(points["upper"]) = 4)
         /\ (out_file # NoFile =>
                /\ Len(out_file.lane_1) = 4
                /\ Len(out_file.lane_2) = 4)
         /\ (cal_pc = "quit" => out_file = NoFile))
    /\ [][ /\ (Len(points'["lower"]) > Len(points["lower"]) => Len(points["upper"]) = 4)
           /\ (out_file' # out_file =>
                  /\ Len(points["upper"]) = 4
                  /\ Len(points["lower"]) = 4
                  /\ cal_pc' = "saved")
           /\ (cal_pc' = "quit" => out_file' = NoFile) ]_vars

\* a file was saved whose lane_1 is the four clicked points in another order
C29_Witness ==
    /\ cal_pc = "saved"
    /\ out_file # NoFile
    /\ Len(points["upper"]) = 4
    /\ Len(points["lower"]) = 4
    /\ out_file.lane_1 # points["upper"]
    /\ {out_file.lane_1[i] : i \in 1..4} = CalClicks

\* q was pressed with both lanes complete, and nothing was written
C29_WitnessQuit ==
    /\ cal_pc = "quit"
    /\ Len(points["upper"]) = 4
    /\ Len(points["lower"]) = 4
    /\ out_file = NoFile

\* ---------------------------------------------------------------------------
\* C30: detect_congestion_trend answers "increasing" exactly when the mean
\* vehicle_count of the more recent half of the fetched records is more than
\* 5 above that of the older half, "decreasing" exactly when the older
\* half's mean is more than 5 above the more recent half's, and "stable"
\* otherwise or with fewer than 5 records.  (The fetched records are the
\* latest 10, the more recent half the latest Len \div 2 of them.)
C30_TrendFollowsRecentHalf ==
    last_call # NoCall /\ last_call.op = "detect_congestion_trend" =>
        LET col == last_call.density_col
            n == IF Len(col) < 10 THEN Len(col) ELSE 10
            \* the fetched records, oldest first
            fetched == SubSeq(col, Len(col) - n + 1, Len(col))
            k == n - (n \div 2)
            older == [i \in 1..k |-> fetched[i].vehicle_count]
            recent == [i \in 1..(n - k) |-> fetched[k + i].vehicle_count]
            rises == Sum(recent) * k - Sum(older) * (n - k) > 5 * k * (n - k)
            falls == Sum(older) * (n - k) - Sum(recent) * k > 5 * k * (n - k)
        IN  IF n < 5 THEN ret = "stable"
            ELSE /\ (ret = "increasing") = rises
                 /\ (ret = "decreasing") = falls
                 /\ (ret = "stable") = (~rises /\ ~falls)

\* six records whose counts went from 0 to 10, answered with "decreasing"
C30_RisingCalledDecreasing ==
    /\ last_call # NoCall /\ last_call.op = "detect_congestion_trend"
    /\ last_call.density_col = [i \in 1..6 |-> [vehicle_count |-> IF i <= 3 THEN 0 ELSE 10]]
    /\ ret = "decreasing"

====
